---- MODULE Spec2Model ----
(***************************************************************************)
(* A model of the focus-group transcript generator: the provider gateway   *)
(* (components/ai_providers.py), the generation pipeline and its           *)
(* post-processor (components/transcript_generator.py) and the form layer  *)
(* (app.py).                                                               *)
(*                                                                         *)
(* Text.  A Python string is modelled as the list str.split('\n') gives:   *)
(* a non-empty sequence of lines.  A line is [indent, words]: whether it   *)
(* starts with whitespace, and its whitespace-separated words.  A word is  *)
(* [w, m, s]: w is the word's spelling (or, for a word built from numbers, *)
(* its shape: "[mm:ss]" a timestamp, "<n>" a numeral, "~<n>" a numeral     *)
(* with a tilde) and m, s the numbers in it.  The character tests the code *)
(* makes (startswith('['), ']' in line, isdigit, ':' in line, a speaker    *)
(* marker in line.upper()) are read off the spelling.                      *)
(***************************************************************************)
EXTENDS Integers, Sequences, FiniteSets, TLC

VARIABLES
    providers,    \* AIProviderManager.providers: provider name -> handle
    op,           \* the gateway operation that ran last, with its arguments
    response,     \* what the provider answered to the call of that operation
    ret,          \* the value that operation returned (or the exception raised)
    requests,     \* the completion requests that operation sent, in order
    inits,        \* the client constructions that operation attempted, in order
    messages,     \* st.error / st.warning / st.write lines that operation displayed
    calls,        \* how many gateway operations have run
    fn,           \* the pure function applied last ("none" before)
    arg_text,     \* its text argument
    arg_duration, \* its duration argument
    out_text,     \* its result, when it is a text
    arg_form,      \* its form_data argument
    arg_languages, \* its selected_languages argument
    out_provider,  \* the provider get_recommended_provider returned
    reports,       \* the reports validate_transcript_quality returned, in order
    phases,        \* the word breakdown computed last
    step,                 \* st.session_state.step
    sess_form,            \* st.session_state.form_data (NoForm before the first run)
    api_config,           \* st.session_state.api_config
    generated_prompt,     \* st.session_state.generated_prompt
    generated_transcript, \* st.session_state.generated_transcript
    shown,                \* the st.error lines of the last run of the script
    crashed               \* whether the last run of the script ended in an exception

gwvars == <<providers, op, response, ret, requests, inits, messages, calls>>
fnvars == <<fn, arg_text, arg_duration, out_text,
            arg_form, arg_languages, out_provider, reports, phases>>
\* the arguments and results the text functions do not use
fnrest == <<arg_form, arg_languages, out_provider, reports, phases>>
uivars == <<step, sess_form, api_config, generated_prompt, generated_transcript,
            shown, crashed>>
vars == <<providers, op, response, ret, requests, inits, messages, calls,
          fn, arg_text, arg_duration, out_text,
          arg_form, arg_languages, out_provider, reports, phases,
          step, sess_form, api_config, generated_prompt, generated_transcript,
          shown, crashed>>

----------------------------------------------------------------------------
(* Words, lines, text *)

W(str) == [w |-> str, m |-> 0, s |-> 0]
Num(n) == [w |-> "<n>", m |-> n, s |-> 0]
TildeNum(n) == [w |-> "~<n>", m |-> n, s |-> 0]
\* a run of n plain words
Run(n) == [w |-> "<words>", m |-> n, s |-> 0]
\* f"[{minutes:02d}:{seconds:02d}]"
Stamp(minutes, seconds) == [w |-> "[mm:ss]", m |-> minutes, s |-> seconds]

Plain(strs) == [i \in 1..Len(strs) |-> W(strs[i])]
Line(words) == [words |-> words, indent |-> FALSE]
Indented(words) == [words |-> words, indent |-> TRUE]
EmptyLine == Line(<<>>)
\* "" : ''.split('\n') == ['']
EmptyText == <<EmptyLine>>

\* spellings that begin with '['
OpensBracket == {"[mm:ss]", "[Various", "[Note:"}
\* spellings that contain ']'
ClosesBracket == {"[mm:ss]", "nod]", "~<n>]"}
\* spellings that contain a digit
DigitWords == {"[mm:ss]", "<n>", "~<n>", "~<n>]", "~<n>,", "<n>M,", "<n>F,", "<n>NB",
               "P1:", "P2:", "1:", "2:"}
\* spellings that contain ':'
ColonWords == {"[mm:ss]", "MODERATOR:", "Moderator:", "P1:", "P2:", "1:", "2:", "[Note:",
               "words:", "Expected:", "Information:", "Topic:", "Date:", "Duration:",
               "Location:", "Type:", "Languages:", "Demographics:", "Participants:",
               "Distribution:", "Range:", "Profile:", "Objective:", "Count:", "Status:"}

\* the speaker markers found in word.upper()
MarkersIn(word) ==
    CASE word.w \in {"MODERATOR:", "Moderator:"} -> {"MODERATOR"}
      [] word.w = "P1:" -> {"P1"}
      [] word.w = "P2:" -> {"P2"}
      [] word.w = "PARTICIPANT" -> {"PARTICIPANT"}
      [] OTHER -> {}

LineMarkers(line) == UNION {MarkersIn(line.words[i]) : i \in 1..Len(line.words)}
HasColon(line) == \E i \in 1..Len(line.words) : line.words[i].w \in ColonWords
HasDigit(line) == \E i \in 1..Len(line.words) : line.words[i].w \in DigitWords
HasCloseBracket(line) == \E i \in 1..Len(line.words) : line.words[i].w \in ClosesBracket
\* line.strip().startswith('[')
StripStartsWithBracket(line) ==
    /\ Len(line.words) > 0
    /\ line.words[1].w \in OpensBracket
\* line.startswith('[')
StartsWithBracket(line) == ~line.indent /\ StripStartsWithBracket(line)

----------------------------------------------------------------------------
(* TranscriptGenerator._add_timestamps *)

Max(a, b) == IF a >= b THEN a ELSE b

\* the markers _add_timestamps looks for
TimestampMarkers == {"MODERATOR", "P1", "P2", "P3", "P4", "P5", "P6", "P7", "P8"}

\* a variant of line 344 that tests line.startswith('[') without strip()
AlreadyStamped_NoStrip(line) ==
    StartsWithBracket(line) /\ HasCloseBracket(line) /\ HasDigit(line)

\* line 344: the line already has a timestamp
AlreadyStamped(line) ==
    StripStartsWithBracket(line) /\ HasCloseBracket(line) /\ HasDigit(line)

IsSpeakerLine(line) == HasColon(line) /\ LineMarkers(line) \cap TimestampMarkers # {}

\* len([l for l in timestamped_lines if l.startswith('[')])
BracketLines(lines) == Cardinality({i \in 1..Len(lines) : StartsWithBracket(lines[i])})

\* a variant in which the timestamp takes the place of the speaker's name
Prepend_OverName(current_time, line) ==
    Line(<<Stamp(current_time \div 60, current_time % 60)>> \o Tail(line.words))

\* timestamp + line
Prepend(current_time, line) ==
    Line(<<Stamp(current_time \div 60, current_time % 60)>> \o line.words)

\* whether the speaker line gets a stamp
StampDue(timestamped_lines, current_time, time_increment) ==
    \/ current_time = 0
    \/ BracketLines(timestamped_lines) < current_time \div time_increment

RECURSIVE AddLoop(_, _, _, _, _)
AddLoop(lines, i, timestamped_lines, current_time, time_increment) ==
    IF i > Len(lines) THEN timestamped_lines
    ELSE LET line == lines[i] IN
         IF AlreadyStamped(line)
         THEN AddLoop(lines, i + 1, Append(timestamped_lines, line),
                      current_time, time_increment)
         ELSE IF IsSpeakerLine(line)
                 /\ StampDue(timestamped_lines, current_time, time_increment)
         THEN AddLoop(lines, i + 1,
                      Append(timestamped_lines, Prepend(current_time, line)),
                      current_time + time_increment, time_increment)
         ELSE AddLoop(lines, i + 1, Append(timestamped_lines, line),
                      current_time, time_increment)

_add_timestamps(transcript, duration) ==
    AddLoop(transcript, 1, <<>>, 0, Max(1, duration \div 20))

----------------------------------------------------------------------------
(* components/utils.py is not among the sources: its two functions are     *)
(* taken from the specification.                                           *)

WORDS_PER_MINUTE == 150

\* expectedWords = duration_minutes * WORDS_PER_MINUTE
calculate_word_count(duration) == duration * WORDS_PER_MINUTE

\* the credential's shape check: "KeyA" has the shape every provider
\* accepts, "KeyB" a shape only openai's check accepts, "" none
validate_api_key(provider, api_key) ==
    \/ api_key = "KeyA"
    \/ api_key = "KeyB" /\ provider = "openai"

----------------------------------------------------------------------------
(* Study configurations (form_data) *)

FormData(n, male, female, nb, dur, topic, location, languages) ==
    [duration |-> dur, topic |-> topic, location |-> location,
     languages |-> languages, num_participants |-> n, male_count |-> male,
     female_count |-> female, non_binary_count |-> nb, age_range |-> "25-45",
     demographics |-> <<"Urban">>, objective |-> <<"Insights">>, discussion_type |-> "online"]

EvMumbai == FormData(8, 4, 4, 0, 60, <<"Electric", "Vehicle", "Adoption">>,
                     <<"Mumbai,", "India">>, <<"Hindi", "English">>)
FoodParis == FormData(4, 2, 2, 0, 15, <<"Food", "Delivery">>,
                      <<"Paris,", "France">>, <<"French">>)
\* male + female + non-binary # total
Mismatched == FormData(5, 2, 2, 0, 30, <<"Food", "Delivery">>,
                       <<"Paris,", "France">>, <<"French">>)
NoForm == FormData(0, 0, 0, 0, 0, <<>>, <<>>, <<>>)

GenderCountsMatch(form_data) ==
    form_data.male_count + form_data.female_count + form_data.non_binary_count
        = form_data.num_participants

----------------------------------------------------------------------------
(* Python values, provider responses, requests, displayed messages *)

PyStr(text) == [provider |-> "", text |-> text, type |-> "str", what |-> ""]
PyNone == [provider |-> "", text |-> <<>>, type |-> "NoneType", what |-> ""]
PyBool(b) == [provider |-> "", text |-> <<>>, type |-> "bool",
              what |-> IF b THEN "True" ELSE "False"]
\* raise Exception(f"{what} {provider}")
Raised(what, provider) ==
    [provider |-> provider, text |-> <<>>, type |-> "Exception", what |-> what]
NoReturn == [provider |-> "", text |-> <<>>, type |-> "none", what |-> ""]

\* `not transcript`
Falsy(value) == value.type = "NoneType" \/ (value.type = "str" /\ value.text = EmptyText)

\* What a provider call can come back with.  kind is
\*   "raise"      the call raises (network, authentication, quota): err
\*   "null"       the response is None
\*   "no_field"   the response has no choices / content / generations / text
\*   "empty_list" that list is empty
\*   "no_text"    its first element has no message or text attribute
\*   "null_text"  the text field is None
\*   "text"       the text field holds text (possibly the empty string)
Resp(kind, text, err) == [text |-> text, kind |-> kind, err |-> err]
NoResponse == Resp("no_call", <<>>, "")

Msg(level, what, provider, raw) ==
    [provider |-> provider, what |-> what, level |-> level, raw |-> raw]

\* a completion request as the provider receives it; a parameter the call
\* does not pass is the empty set.  max_tokens is kept doubled
\* (calculate_word_count(duration) * 1.5 is words * 3 / 2) and temperature
\* in tenths.
Request(provider_type, model, prompt, max_tokens_x2, temperature_x10) ==
    [provider |-> provider_type, model |-> model, prompt |-> prompt,
     max_tokens_x2 |-> max_tokens_x2, temperature_x10 |-> temperature_x10]

NoOp == [provider |-> "", api_key |-> "", form_data |-> NoForm, model |-> "",
         name |-> "none"]
Op(name, provider, api_key, model, form_data) ==
    [provider |-> provider, api_key |-> api_key, form_data |-> form_data, model |-> model,
     name |-> name]

----------------------------------------------------------------------------
(* AIProviderManager *)

KnownProviders == {"openai", "anthropic", "google", "cohere", "mistral"}

\* [00:00] MODERATOR: Welcome to the focus group on {topic}. This is a ...
\* (the full stop after the topic is not a word of its own)
StubText(form_data) ==
    LET duration == form_data.duration
        estimated_words == calculate_word_count(duration)
    IN << Line(<<Stamp(0, 0), W("MODERATOR:")>>
               \o Plain(<<"Welcome", "to", "the", "focus", "group", "on">>)
               \o Plain(form_data.topic)
               \o Plain(<<"This", "is", "a", "simulated", "transcript", "due", "to",
                          "API", "failure.">>)),
          Line(<<Stamp(0, 5), W("PARTICIPANT"), W("1:")>>
               \o Plain(<<"This", "is", "a", "placeholder", "response", "with", "about">>)
               \o <<Num(estimated_words \div 10)>> \o Plain(<<"words.">>)),
          Line(<<Stamp(0, 10), W("PARTICIPANT"), W("2:")>>
               \o Plain(<<"Another", "response", "here,", "adding", "more", "context.">>)),
          Line(Plain(<<"...", "(Transcript", "continues", "for">>)
               \o <<Num(duration)>> \o Plain(<<"minutes", "with">>)
               \o <<TildeNum(estimated_words)>> \o Plain(<<"words", "total)">>)) >>

FallbackWarning == Msg("warning", "API call failed. Generating simulated transcript", "", "")

\* _simulate_transcript: the value returned and the warning displayed
_simulate_transcript(prompt, form_data) ==
    [ret |-> PyStr(StubText(form_data)), messages |-> <<FallbackWarning>>]

TEMPERATURE_x10 == 7

\* max_tokens = calculate_word_count(form_data['duration']) * 1.5, doubled
MaxTokens_x2(form_data) == calculate_word_count(form_data.duration) * 3

\* the arguments of the provider's completion call
BuildRequest(provider_type, model, prompt, form_data) ==
    CASE provider_type \in {"openai", "anthropic", "cohere"} ->
            Request(provider_type, {model}, prompt,
                    {MaxTokens_x2(form_data)}, {TEMPERATURE_x10})
      [] provider_type = "google" ->
            Request(provider_type, {}, prompt, {}, {})
      [] provider_type = "mistral" ->
            Request(provider_type, {model}, prompt, {}, {TEMPERATURE_x10})

\* a variant of the except clause whose line does not name the provider
OnException_Anonymous(provider_name, provider_type, prompt, form_data, raw) ==
    LET error == <<Msg("error", "Error generating transcript", "", raw)>>
    IN IF provider_type = "mistral"
       THEN LET sim == _simulate_transcript(prompt, form_data)
            IN [ret |-> sim.ret, messages |-> error \o sim.messages]
       ELSE [ret |-> PyNone, messages |-> error]

\* a variant of the except clause that falls back for every provider
OnException_FallbackAll(provider_name, provider_type, prompt, form_data, raw) ==
    LET error == <<Msg("error", "Error generating transcript with", provider_name, raw)>>
        sim == _simulate_transcript(prompt, form_data)
    IN [ret |-> sim.ret, messages |-> error \o sim.messages]

\* lines 137-141 of generate_transcript: the except clause, raw the message
\* of the exception
OnException(provider_name, provider_type, prompt, form_data, raw) ==
    LET error == <<Msg("error", "Error generating transcript with", provider_name, raw)>>
    IN IF provider_type = "mistral"
       THEN LET sim == _simulate_transcript(prompt, form_data)
            IN [ret |-> sim.ret, messages |-> error \o sim.messages]
       ELSE [ret |-> PyNone, messages |-> error]

\* str(response), for a response without a text attribute
ReprText(resp) ==
    IF resp.kind = "null" THEN <<Line(Plain(<<"None">>))>>
    ELSE <<Line(Plain(<<"<response", "object>">>))>>

\* response.choices[0].message.content, response.content[0].text,
\* response.generations[0].text
FirstText(provider_name, provider_type, prompt, form_data, resp) ==
    CASE resp.kind \in {"null", "no_field", "no_text"} ->
            OnException(provider_name, provider_type, prompt, form_data, "AttributeError")
      [] resp.kind = "empty_list" ->
            OnException(provider_name, provider_type, prompt, form_data, "IndexError")
      [] resp.kind = "null_text" -> [ret |-> PyNone, messages |-> <<>>]
      [] resp.kind = "text" -> [ret |-> PyStr(resp.text), messages |-> <<>>]

\* what the try block of generate_transcript makes of the provider's answer
Handle(provider_name, provider_type, prompt, form_data, resp) ==
    CASE resp.kind = "raise" ->
            OnException(provider_name, provider_type, prompt, form_data, resp.err)
      [] resp.kind # "raise" /\ provider_type \in {"openai", "anthropic", "cohere"} ->
            FirstText(provider_name, provider_type, prompt, form_data, resp)
      [] resp.kind # "raise" /\ provider_type = "google" ->
            \* response.text if hasattr(response, 'text') else str(response);
            \* a response whose text accessor fails raises inside the try
            (CASE resp.kind \in {"null", "no_field"} ->
                    [ret |-> PyStr(ReprText(resp)), messages |-> <<>>]
               [] resp.kind \in {"empty_list", "no_text"} ->
                    OnException(provider_name, provider_type, prompt, form_data,
                                "ValueError")
               [] resp.kind = "null_text" -> [ret |-> PyNone, messages |-> <<>>]
               [] resp.kind = "text" -> [ret |-> PyStr(resp.text), messages |-> <<>>])
      [] resp.kind # "raise" /\ provider_type = "mistral" ->
            LET debug == <<Msg("write", "Debug: Mistral response structure", "", resp.kind)>>
            IN IF resp.kind \in {"null", "no_field", "empty_list"}
               THEN LET sim == _simulate_transcript(prompt, form_data)
                    IN [ret |-> sim.ret,
                        messages |-> debug
                            \o <<Msg("error", "Mistral API response invalid or empty",
                                     "", resp.kind)>>
                            \o sim.messages]
               ELSE LET got == FirstText(provider_name, provider_type, prompt,
                                         form_data, resp)
                    IN [ret |-> got.ret, messages |-> debug \o got.messages]
      [] OTHER -> [ret |-> PyNone, messages |-> <<>>]

\* a variant that answers with the simulated transcript when the provider
\* has no handle
generate_transcript_StubWhenMissing(provs, provider_name, prompt, form_data, resp) ==
    IF provider_name \notin DOMAIN provs
    THEN [ret |-> _simulate_transcript(prompt, form_data).ret, requests |-> <<>>,
          messages |-> _simulate_transcript(prompt, form_data).messages]
    ELSE LET provider == provs[provider_name]
             got == Handle(provider_name, provider.type, prompt, form_data, resp)
         IN [ret |-> got.ret,
             requests |-> <<BuildRequest(provider.type, provider.model, prompt, form_data)>>,
             messages |-> got.messages]

\* generate_transcript on the handle table provs: the value returned, the
\* requests sent and the messages displayed
generate_transcript(provs, provider_name, prompt, form_data, resp) ==
    IF provider_name \notin DOMAIN provs
    THEN [ret |-> PyNone, requests |-> <<>>,
          messages |-> <<Msg("error", "not initialized", provider_name, "")>>]
    ELSE LET provider == provs[provider_name]
             got == Handle(provider_name, provider.type, prompt, form_data, resp)
         IN [ret |-> got.ret,
             requests |-> <<BuildRequest(provider.type, provider.model, prompt, form_data)>>,
             messages |-> got.messages]

\* the handle initialize_provider registers
NewHandle(provider_name, api_key, model) ==
    [type |-> provider_name, model |-> model, client |-> api_key]

\* initialize_provider on the handle table provs; throws: the client's
\* construction raises
initialize_provider(provs, provider_name, api_key, model, throws) ==
    IF provider_name \notin KnownProviders
    THEN [providers |-> provs, ret |-> PyBool(TRUE), inits |-> <<>>, messages |-> <<>>]
    ELSE IF throws
    THEN [providers |-> provs, ret |-> PyBool(FALSE),
          inits |-> <<[provider |-> provider_name, api_key |-> api_key]>>,
          messages |-> <<Msg("error", "Error initializing", provider_name, "client error")>>]
    ELSE [providers |-> [q \in DOMAIN provs \cup {provider_name} |->
                            IF q = provider_name
                            THEN NewHandle(provider_name, api_key, model)
                            ELSE provs[q]],
          ret |-> PyBool(TRUE),
          inits |-> <<[provider |-> provider_name, api_key |-> api_key]>>,
          messages |-> <<>>]

----------------------------------------------------------------------------
(* TranscriptGenerator: the pipeline and its post-processor *)

\* line.strip() of every line
_clean_transcript_formatting(transcript) ==
    [i \in 1..Len(transcript) |-> Line(transcript[i].words)]

\* the whitespace-separated words a word of the model stands for
Weight(word) == IF word.w = "<words>" THEN word.m ELSE 1

RECURSIVE LineWords(_, _)
LineWords(words, n) ==
    IF n = 0 THEN 0 ELSE Weight(words[n]) + LineWords(words, n - 1)

RECURSIVE WordsUpTo(_, _)
WordsUpTo(text, n) ==
    IF n = 0 THEN 0
    ELSE LineWords(text[n].words, Len(text[n].words)) + WordsUpTo(text, n - 1)

\* len(transcript.split())
WordCount(text) == WordsUpTo(text, Len(text))

NoteLine(which, actual_words, expected_words) ==
    Line(Plain(<<"[Note:", "Transcript", "may", "be", which, "than", "expected.",
                 "Actual", "words:">>)
         \o <<[w |-> "~<n>,", m |-> actual_words, s |-> 0]>>
         \o Plain(<<"Expected:">>)
         \o <<[w |-> "~<n>]", m |-> expected_words, s |-> 0]>>)

\* a variant that cuts the last line of a transcript that is too long
_adjust_word_count_Truncating(transcript, form_data) ==
    LET expected_words == calculate_word_count(form_data.duration)
        actual_words == WordCount(transcript)
    IN IF expected_words > 0 /\ actual_words * 10 < 8 * expected_words
       THEN transcript \o <<EmptyLine, NoteLine("shorter", actual_words, expected_words)>>
       ELSE IF expected_words > 0 /\ actual_words * 10 > 12 * expected_words
       THEN SubSeq(transcript, 1, Len(transcript) - 1)
                \o <<EmptyLine, NoteLine("longer", actual_words, expected_words)>>
       ELSE transcript

\* a variant whose comparisons are <= 0.8 and >= 1.2
_adjust_word_count_Inclusive(transcript, form_data) ==
    LET expected_words == calculate_word_count(form_data.duration)
        actual_words == WordCount(transcript)
    IN IF expected_words > 0 /\ actual_words * 10 <= 8 * expected_words
       THEN transcript \o <<EmptyLine, NoteLine("shorter", actual_words, expected_words)>>
       ELSE IF expected_words > 0 /\ actual_words * 10 >= 12 * expected_words
       THEN transcript \o <<EmptyLine, NoteLine("longer", actual_words, expected_words)>>
       ELSE transcript

\* word_ratio = actual_words / expected_words, compared in integers
_adjust_word_count(transcript, form_data) ==
    LET expected_words == calculate_word_count(form_data.duration)
        actual_words == WordCount(transcript)
    IN IF expected_words > 0 /\ actual_words * 10 < 8 * expected_words
       THEN transcript \o <<EmptyLine, NoteLine("shorter", actual_words, expected_words)>>
       ELSE IF expected_words > 0 /\ actual_words * 10 > 12 * expected_words
       THEN transcript \o <<EmptyLine, NoteLine("longer", actual_words, expected_words)>>
       ELSE transcript

\* str.upper() of the discussion type
Upper(str) ==
    CASE str = "online" -> "ONLINE"
      [] str = "offline" -> "OFFLINE"
      [] OTHER -> str

\* the header block (the date is the day of the run; the commas that join
\* the languages are not words of their own)
_generate_transcript_header(form_data) ==
    LET estimated_words == calculate_word_count(form_data.duration)
    IN << Line(Plain(<<"FOCUS", "GROUP", "DISCUSSION", "TRANSCRIPT">>)),
          EmptyLine,
          Line(Plain(<<"Study", "Information:">>)),
          Line(Plain(<<"-", "Topic:">>) \o Plain(form_data.topic)),
          Line(Plain(<<"-", "Date:", "<date>">>)),
          Line(Plain(<<"-", "Duration:">>) \o <<Num(form_data.duration)>>
               \o Plain(<<"minutes">>)),
          Line(Plain(<<"-", "Location:">>) \o Plain(form_data.location)),
          Line(Plain(<<"-", "Type:", Upper(form_data.discussion_type)>>)),
          Line(Plain(<<"-", "Languages:">>) \o Plain(form_data.languages)),
          EmptyLine,
          Line(Plain(<<"Participant", "Demographics:">>)),
          Line(Plain(<<"-", "Total", "Participants:">>)
               \o <<Num(form_data.num_participants)>>),
          Line(Plain(<<"-", "Gender", "Distribution:">>)
               \o << [w |-> "<n>M,", m |-> form_data.male_count, s |-> 0],
                     [w |-> "<n>F,", m |-> form_data.female_count, s |-> 0],
                     [w |-> "<n>NB", m |-> form_data.non_binary_count, s |-> 0] >>),
          Line(Plain(<<"-", "Age", "Range:", form_data.age_range>>)),
          Line(Plain(<<"-", "Profile:">>) \o Plain(form_data.demographics)),
          EmptyLine,
          Line(Plain(<<"Study", "Objective:">>)),
          Line(Plain(form_data.objective)),
          EmptyLine,
          Line(Plain(<<"Expected", "Word", "Count:">>) \o <<TildeNum(estimated_words)>>
               \o Plain(<<"words">>)),
          Line(Plain(<<"Transcript", "Status:", "Generated", "using", "AI", "simulation">>)),
          EmptyLine,
          Line(Plain(<<"====">>)) >>

\* a variant that counts the words of the header with those of the body
_post_process_transcript_CountsHeader(transcript, form_data) ==
    LET header == _generate_transcript_header(form_data)
        cleaned_transcript == _clean_transcript_formatting(transcript)
        timestamped_transcript == _add_timestamps(cleaned_transcript, form_data.duration)
        whole == _adjust_word_count(header \o <<EmptyLine>> \o timestamped_transcript,
                                    form_data)
    IN whole

\* header + "\n\n" + final_transcript
_post_process_transcript(transcript, form_data) ==
    LET header == _generate_transcript_header(form_data)
        cleaned_transcript == _clean_transcript_formatting(transcript)
        timestamped_transcript == _add_timestamps(cleaned_transcript, form_data.duration)
        final_transcript == _adjust_word_count(timestamped_transcript, form_data)
    IN header \o <<EmptyLine>> \o final_transcript

----------------------------------------------------------------------------
(* TranscriptGenerator._research_topic and _enhance_prompt_with_research *)

\* research_templates[key][loc]
research_templates(key, loc) ==
    CASE key = "electric vehicle" /\ loc = "india" ->
            << EmptyLine,
               Line(Plain(<<"-", "India's", "EV", "market", "is", "growing", "rapidly",
                   "with", "government", "push", "for", "2030", "targets">>)),
               Line(Plain(<<"-", "Major", "concerns:", "charging", "infrastructure,",
                   "price,", "range", "anxiety">>)),
               Line(Plain(<<"-", "Local", "players:", "Tata", "Motors,", "Mahindra,",
                   "Hero", "Electric">>)),
               Line(Plain(<<"-", "Government", "incentives:", "FAME", "II", "scheme,",
                   "state", "subsidies">>)),
               Line(Plain(<<"-", "Cultural", "factors:", "joint", "family",
                   "decisions,", "value", "for", "money", "mindset">>)),
               Indented(<<>>) >>
      [] key = "electric vehicle" /\ loc = "france" ->
            << EmptyLine,
               Line(Plain(<<"-", "France", "has", "strong", "EV", "adoption", "with",
                   "extensive", "charging", "network">>)),
               Line(Plain(<<"-", "Government", "banned", "ICE", "sales", "by",
                   "2040">>)),
               Line(Plain(<<"-", "Popular", "models:", "Renault", "Zoe,", "Peugeot",
                   "e-208">>)),
               Line(Plain(<<"-", "Concerns:", "battery", "replacement", "costs,",
                   "winter", "performance">>)),
               Line(Plain(<<"-", "Cultural", "factors:", "environmental",
                   "consciousness,", "government", "trust">>)),
               Indented(<<>>) >>
      [] key = "electric vehicle" /\ loc = "usa" ->
            << EmptyLine,
               Line(Plain(<<"-", "Tesla", "dominance", "with", "growing", "competition",
                   "from", "traditional", "automakers">>)),
               Line(Plain(<<"-", "State-level", "incentives", "vary",
                   "significantly">>)),
               Line(Plain(<<"-", "Range", "anxiety", "decreasing", "with", "better",
                   "infrastructure">>)),
               Line(Plain(<<"-", "Cultural", "factors:", "truck", "culture", "in",
                   "rural", "areas,", "tech", "adoption", "in", "cities">>)),
               Indented(<<>>) >>
      [] key = "food delivery" /\ loc = "india" ->
            << EmptyLine,
               Line(Plain(<<"-", "Dominated", "by", "Zomato", "and", "Swiggy">>)),
               Line(Plain(<<"-", "Concerns:", "food", "quality,", "delivery", "time,",
                   "hygiene">>)),
               Line(Plain(<<"-", "Cultural", "factors:", "home-cooked", "food",
                   "preference,", "family", "meal", "importance">>)),
               Line(Plain(<<"-", "Local", "challenges:", "address", "accuracy,",
                   "payment", "preferences">>)),
               Indented(<<>>) >>
      [] key = "food delivery" /\ loc = "global" ->
            << EmptyLine,
               Line(Plain(<<"-", "App-based", "delivery", "has", "changed", "eating",
                   "habits">>)),
               Line(Plain(<<"-", "Concerns:", "delivery", "fees,", "food",
                   "temperature,", "packaging", "waste">>)),
               Line(Plain(<<"-", "Competition", "from", "cloud", "kitchens", "and",
                   "direct", "restaurant", "apps">>)),
               Indented(<<>>) >>

\* the keys of research_templates and of each of its entries, in the order
\* of the dictionary
research_keys == <<"electric vehicle", "food delivery">>
research_locations(key) ==
    CASE key = "electric vehicle" -> <<"india", "france", "usa">>
      [] key = "food delivery" -> <<"india", "global">>

\* the lookup keys word.lower() contains, for the words of the model's
\* topics and locations
KeysIn(word) ==
    CASE word = "Electric" -> {"electric"}
      [] word \in {"Vehicle", "Vehicles"} -> {"vehicle"}
      [] word = "Food" -> {"food"}
      [] word = "Delivery" -> {"delivery"}
      [] word = "India" -> {"india"}
      [] word \in {"Mumbai,", "Mumbai"} -> {"mumbai"}
      [] word \in {"Delhi,", "Delhi"} -> {"delhi"}
      [] word = "France" -> {"france"}
      [] word \in {"Paris,", "Paris"} -> {"paris"}
      [] word = "USA" -> {"usa"}
      [] word = "Global" -> {"global"}
      [] word = "UK" -> {"uk"}
      [] word = "Canada" -> {"canada"}
      [] OTHER -> {}

\* the two words of a key of research_templates
KeyWords(key) ==
    CASE key = "electric vehicle" -> <<"electric", "vehicle">>
      [] key = "food delivery" -> <<"food", "delivery">>

\* key.lower() in topic.lower(): the two words of the key side by side
TopicHas(topic, key) ==
    \E i \in 1..(Len(topic) - 1) :
        /\ KeyWords(key)[1] \in KeysIn(topic[i])
        /\ KeyWords(key)[2] \in KeysIn(topic[i + 1])

\* loc in location.lower()
LocationHas(location, loc) == \E i \in 1..Len(location) : loc \in KeysIn(location[i])

\* the first position from i on at which the sequence of keys has a key the
\* topic contains (0: none)
RECURSIVE FirstTopicKey(_, _)
FirstTopicKey(topic, i) ==
    IF i > Len(research_keys) THEN 0
    ELSE IF TopicHas(topic, research_keys[i]) THEN i
    ELSE FirstTopicKey(topic, i + 1)

\* the first position from i on at which locs has a key the location contains
RECURSIVE FirstLocation(_, _, _)
FirstLocation(location, locs, i) ==
    IF i > Len(locs) THEN 0
    ELSE IF LocationHas(location, locs[i]) THEN i
    ELSE FirstLocation(location, locs, i + 1)

\* the last line of _research_topic (the quotes stand as words of their own)
NoTemplate(topic, location) ==
    << Line(Plain(<<"Research", "topic", "'">>) \o Plain(topic)
            \o Plain(<<"'", "in", "context", "of">>) \o Plain(location)
            \o Plain(<<"market", "conditions", "and", "consumer", "behavior">>)) >>

\* a variant that returns the first template of the topic whatever the location
_research_topic_FirstLocation(topic, location) ==
    LET k == FirstTopicKey(topic, 1)
    IN IF k = 0 THEN NoTemplate(topic, location)
       ELSE research_templates(research_keys[k], research_locations(research_keys[k])[1])

\* _research_topic
_research_topic(topic, location) ==
    LET k == FirstTopicKey(topic, 1)
    IN IF k = 0 THEN NoTemplate(topic, location)
       ELSE LET key == research_keys[k]
                locs == research_locations(key)
                l == FirstLocation(location, locs, 1)
            IN IF l # 0 THEN research_templates(key, locs[l])
               ELSE IF \E i \in 1..Len(locs) : locs[i] = "global"
               THEN research_templates(key, "global")
               ELSE << Line(Plain(<<"No", "specific", "research", "available">>)) >>

\* a variant that sends the base prompt without the research
_enhance_prompt_with_research_BaseOnly(base_prompt, form_data) ==
    [location |-> form_data.location,
     languages |-> form_data.languages,
     base |-> base_prompt,
     research |-> <<>>]

\* the prompt sent to the provider: the base prompt, the RESEARCH INSIGHTS
\* block, and the location and the languages from which the CULTURAL CONTEXT
\* and LANGUAGE PATTERNS blocks are computed
_enhance_prompt_with_research(base_prompt, form_data) ==
    [location |-> form_data.location,
     languages |-> form_data.languages,
     base |-> base_prompt,
     research |-> _research_topic(form_data.topic, form_data.location)]


\* a variant of lines 43-49 that sends the request again when it gave nothing
AfterGenerate_Retry(init, gen, form_data) ==
    [providers |-> init.providers,
     ret |-> IF Falsy(gen.ret)
             THEN Raised("Failed to generate transcript", "")
             ELSE PyStr(_post_process_transcript(gen.ret.text, form_data)), requests |-> IF Falsy(gen.ret) THEN gen.requests \o gen.requests ELSE gen.requests,
     inits |-> init.inits,
     messages |-> init.messages \o gen.messages]

\* lines 43-49 of generate_full_transcript: gen is what generate_transcript gave
AfterGenerate(init, gen, form_data) ==
    [providers |-> init.providers,
     ret |-> IF Falsy(gen.ret)
             THEN Raised("Failed to generate transcript", "")
             ELSE PyStr(_post_process_transcript(gen.ret.text, form_data)), requests |-> gen.requests,
     inits |-> init.inits,
     messages |-> init.messages \o gen.messages]

\* a variant of lines 30-41 that constructs the client a second time when
\* the first construction failed
AfterInitialize_Retry(init, provider_name, form_data, base_prompt, resp) ==
    IF init.ret = PyBool(FALSE)
    THEN [providers |-> init.providers,
          ret |-> Raised("Failed to initialize", provider_name), requests |-> <<>>,
          inits |-> init.inits \o init.inits, messages |-> init.messages \o init.messages]
    ELSE AfterGenerate(init,
             generate_transcript(init.providers, provider_name,
                 _enhance_prompt_with_research(base_prompt, form_data),
                 form_data, resp),
             form_data)

\* lines 30-41 of generate_full_transcript: init is what initialize_provider gave
AfterInitialize(init, provider_name, form_data, base_prompt, resp) ==
    IF init.ret = PyBool(FALSE)
    THEN [providers |-> init.providers,
          ret |-> Raised("Failed to initialize", provider_name), requests |-> <<>>,
          inits |-> init.inits, messages |-> init.messages]
    ELSE AfterGenerate(init,
             generate_transcript(init.providers, provider_name,
                 _enhance_prompt_with_research(base_prompt, form_data),
                 form_data, resp),
             form_data)

\* generate_full_transcript on the handle table provs
generate_full_transcript(provs, form_data, config, base_prompt, throws, resp) ==
    AfterInitialize(
        initialize_provider(provs, config.provider, config.api_key,
                            config.model, throws),
        config.provider, form_data, base_prompt, resp)

----------------------------------------------------------------------------
(* TranscriptGenerator.validate_transcript_quality *)

\* the '\n' between two lines, as a word of the flattened text
Break == W("<newline>")

RECURSIVE FlatUpTo(_, _)
FlatUpTo(text, n) ==
    IF n = 0 THEN <<>>
    ELSE IF n = 1 THEN text[1].words
    ELSE FlatUpTo(text, n - 1) \o <<Break>> \o text[n].words

\* the words of the text in reading order, with the line breaks
Flat(text) == FlatUpTo(text, Len(text))

\* the positions of the runs of plain words
RunsAt(words) == {i \in 1..Len(words) : words[i].w = "<words>"}
Min(S) == CHOOSE x \in S : \A y \in S : x <= y
Largest(S) == CHOOSE x \in S : \A y \in S : x >= y

\* transcript_lower[:500]: a run is longer than 500 characters and the other
\* words of a text together are shorter, so the first 500 characters end
\* inside the first run
First500(words) ==
    IF RunsAt(words) = {} THEN words ELSE SubSeq(words, 1, Min(RunsAt(words)) - 1)
\* transcript_lower[-500:]
Last500(words) ==
    IF RunsAt(words) = {} THEN words
    ELSE SubSeq(words, Largest(RunsAt(words)) + 1, Len(words))

\* the keywords word.lower() contains (for the spellings of the audited
\* texts; a run of plain words contains none)
KeywordsIn(word) ==
    CASE word.w = "Welcome" -> {"welcome"}
      [] word.w = "friend" -> {"end"}
      [] word.w = "yaar" -> {"yaar"}
      [] OTHER -> {}

\* the keywords that span two words separated by a blank
KeywordsAcross(first, second) ==
    CASE first.w = "Thank" /\ second.w = "you" -> {"thank you"}
      [] first.w = "I" /\ second.w = "think" -> {"i think"}
      [] OTHER -> {}

\* the keywords found in the lower-cased words
Found(words) ==
    UNION {KeywordsIn(words[i]) : i \in 1..Len(words)}
        \cup UNION {KeywordsAcross(words[i], words[i + 1]) : i \in 1..(Len(words) - 1)}

opening_keywords == {"welcome", "introduction", "begin", "start", "good morning",
                     "good evening"}
closing_keywords == {"thank you", "conclude", "wrap up", "final thoughts", "end"}
natural_indicators == {"umm", "uh", "you know", "like", "actually", "i think", "well"}
cultural_words == {"yaar", "na", "arre", "bas", "tension", "time pass"}

\* 'india' in location or 'mumbai' in location or 'delhi' in location
IndianLocation(location) ==
    \E i \in 1..Len(location) : location[i] \in {"India", "Mumbai,", "Mumbai", "Delhi,", "Delhi"}

\* the quality_checks dictionary, in the order of its keys
ProbeOrder == <<"has_moderator", "has_participants", "has_timestamps", "has_opening",
                "has_closing", "appropriate_length", "natural_flow",
                "cultural_references">>

Probes == {ProbeOrder[i] : i \in 1..Len(ProbeOrder)}

\* lines 392-428: the value of every probe
QualityChecks(transcript, form_data) ==
    LET word_count == WordCount(transcript)
        expected_words == calculate_word_count(form_data.duration)
        words == Flat(transcript)
        lines == 1..Len(transcript)
    IN [k \in Probes |->
        CASE k = "has_moderator" ->
                \E i \in lines : "MODERATOR" \in LineMarkers(transcript[i])
          [] k = "has_participants" ->
                \E i \in lines :
                    LineMarkers(transcript[i]) \cap {"P1", "P2", "P3", "PARTICIPANT"} # {}
          [] k = "has_timestamps" ->
                Cardinality({i \in lines : AlreadyStamped(transcript[i])}) > 2
          [] k = "has_opening" -> Found(First500(words)) \cap opening_keywords # {}
          [] k = "has_closing" -> Found(Last500(words)) \cap closing_keywords # {}
          [] k = "appropriate_length" ->
                /\ 7 * expected_words <= 10 * word_count
                /\ 10 * word_count <= 13 * expected_words
          [] k = "natural_flow" -> Found(words) \cap natural_indicators # {}
          [] k = "cultural_references" ->
                IF IndianLocation(form_data.location)
                THEN Found(words) \cap cultural_words # {}
                ELSE TRUE]

\* the fixed recommendation of a probe
Recommendation(k) ==
    CASE k = "has_moderator" -> "Add moderator dialogue to guide the discussion"
      [] k = "has_participants" -> "Include more participant responses and interactions"
      [] k = "has_timestamps" -> "Add timestamps to show discussion progression"
      [] k = "has_opening" -> "Include a proper opening with introductions and ground rules"
      [] k = "has_closing" -> "Add a closing section with summary and thanks"
      [] k = "appropriate_length" -> "Adjust transcript length to match expected duration"
      [] k = "natural_flow" -> "Add more natural speech patterns and hesitations"
      [] k = "cultural_references" -> "Include more location-specific cultural references"

\* a variant written as one if/elif chain: only the first failing probe speaks
_get_quality_recommendations_FirstOnly(quality_checks) ==
    LET failing == {i \in 1..Len(ProbeOrder) : ~quality_checks[ProbeOrder[i]]}
    IN IF failing = {} THEN <<>> ELSE <<Recommendation(ProbeOrder[Min(failing)])>>

RECURSIVE RecommendationsFrom(_, _)
RecommendationsFrom(quality_checks, i) ==
    IF i > Len(ProbeOrder) THEN <<>>
    ELSE (IF quality_checks[ProbeOrder[i]] THEN <<>>
          ELSE <<Recommendation(ProbeOrder[i])>>)
         \o RecommendationsFrom(quality_checks, i + 1)

_get_quality_recommendations(quality_checks) == RecommendationsFrom(quality_checks, 1)

\* a variant that divides by the number of failed checks
QualityScore_OverFailed(passed_checks, total_checks) ==
    [num |-> passed_checks, den |-> total_checks - passed_checks]

\* quality_score = passed_checks / total_checks, as a fraction
QualityScore(passed_checks, total_checks) ==
    [num |-> passed_checks, den |-> total_checks]

validate_transcript_quality(transcript, form_data) ==
    LET quality_checks == QualityChecks(transcript, form_data)
        passed_checks == Cardinality({k \in DOMAIN quality_checks : quality_checks[k]})
        total_checks == Cardinality(DOMAIN quality_checks)
    IN [expected_words |-> calculate_word_count(form_data.duration),
        word_count |-> WordCount(transcript),
        passed_checks |-> passed_checks,
        total_checks |-> total_checks,
        quality_score |-> QualityScore(passed_checks, total_checks),
        checks |-> quality_checks,
        recommendations |-> _get_quality_recommendations(quality_checks)]

----------------------------------------------------------------------------
(* PromptTemplateManager *)

\* a + b of two Python strings: the last line of a and the first line of b
\* become one line
StrCat(a, b) ==
    LET last == a[Len(a)]
        first == b[1]
        joined == [words |-> last.words \o first.words,
                   indent |-> last.indent \/ (last.words = <<>> /\ first.indent)]
    IN SubSeq(a, 1, Len(a) - 1) \o <<joined>> \o SubSeq(b, 2, Len(b))

\* _get_standard_template
_get_standard_template ==
    << EmptyLine,
       Line(Plain(<<"FOCUS", "GROUP", "STRUCTURE", "GUIDELINES:">>)),
       EmptyLine,
       Line(Plain(<<"1.", "OPENING", "PHASE", "(15%", "of", "discussion):">>)),
       Indented(Plain(<<"-", "Warm", "welcome", "and", "moderator", "introduction">>)),
       Indented(Plain(<<"-", "Participant", "introductions", "(name,", "brief", "background)">>)),
       Indented(Plain(<<"-", "Explanation", "of", "process", "and", "confidentiality">>)),
       Indented(Plain(<<"-", "Recording", "consent">>)),
       Indented(Plain(<<"-", "Ground", "rules", "establishment">>)),
       EmptyLine,
       Line(Plain(<<"2.", "WARM-UP", "PHASE", "(10%", "of", "discussion):">>)),
       Indented(Plain(<<"-", "Icebreaker", "questions", "related", "to", "topic">>)),
       Indented(Plain(<<"-", "General", "opinions", "and", "initial", "reactions">>)),
       Indented(Plain(<<"-", "Build", "comfort", "and", "rapport">>)),
       EmptyLine,
       Line(Plain(<<"3.", "CORE", "DISCUSSION", "PHASE", "(65%", "of", "discussion):">>)),
       Indented(Plain(<<"-", "Systematic", "exploration", "of", "key", "research", "questions">>)),
       Indented(Plain(<<"-", "Deep", "probing", "with", "follow-up", "questions">>)),
       Indented(Plain(<<"-", "Encourage", "different", "perspectives">>)),
       Indented(Plain(<<"-", "Manage", "group", "dynamics">>)),
       Indented(Plain(<<"-", "Explore", "underlying", "motivations">>)),
       EmptyLine,
       Line(Plain(<<"4.", "CLOSING", "PHASE", "(10%", "of", "discussion):">>)),
       Indented(Plain(<<"-", "Summary", "of", "key", "themes">>)),
       Indented(Plain(<<"-", "Final", "thoughts", "and", "additional", "comments">>)),
       Indented(Plain(<<"-", "Thank", "participants">>)),
       Indented(Plain(<<"-", "Next", "steps", "(if", "any)">>)),
       EmptyLine,
       Line(Plain(<<"MODERATOR", "TECHNIQUES:">>)),
       Line(Plain(<<"-", "Use", "open-ended", "questions">>)),
       Line(Plain(<<"-", "Probe", "with", "\"Can", "you", "tell", "me", "more", "about",
           "that?\"">>)),
       Line(Plain(<<"-", "Encourage", "quiet", "participants:", "\"Sarah,", "what's", "your",
           "take", "on", "this?\"">>)),
       Line(Plain(<<"-", "Manage", "dominant", "speakers", "tactfully">>)),
       Line(Plain(<<"-", "Maintain", "neutrality">>)),
       Line(Plain(<<"-", "Use", "active", "listening", "techniques">>)),
       Indented(<<>>) >>

\* what _get_business_template, _get_consumer_template, _get_healthcare_template
\* and _get_technology_template add to the standard template
specifics(template_type) ==
    CASE template_type = "business" ->
            << EmptyLine,
               EmptyLine,
               Line(Plain(<<"BUSINESS", "FOCUS", "GROUP", "SPECIFICS:">>)),
               Line(Plain(<<"-", "Explore", "decision-making", "processes">>)),
               Line(Plain(<<"-", "Understand", "ROI", "and", "cost", "considerations">>)),
               Line(Plain(<<"-", "Investigate", "stakeholder", "influences">>)),
               Line(Plain(<<"-", "Discuss", "implementation", "challenges">>)),
               Line(Plain(<<"-", "Explore", "competitive", "landscape", "awareness">>)),
               Line(Plain(<<"-", "Focus", "on", "practical", "business", "implications">>)),
               Indented(<<>>) >>
      [] template_type = "consumer" ->
            << EmptyLine,
               EmptyLine,
               Line(Plain(<<"CONSUMER", "FOCUS", "GROUP", "SPECIFICS:">>)),
               Line(Plain(<<"-", "Explore", "emotional", "connections", "to", "products/brands">>)),
               Line(Plain(<<"-", "Understand", "purchase", "journey", "and", "touchpoints">>)),
               Line(Plain(<<"-", "Investigate", "lifestyle", "and", "value", "influences">>)),
               Line(Plain(<<"-", "Discuss", "word-of-mouth", "and", "social", "influences">>)),
               Line(Plain(<<"-", "Explore", "unmet", "needs", "and", "pain", "points">>)),
               Line(Plain(<<"-", "Focus", "on", "user", "experience", "and", "satisfaction">>)),
               Indented(<<>>) >>
      [] template_type = "healthcare" ->
            << EmptyLine,
               EmptyLine,
               Line(Plain(<<"HEALTHCARE", "FOCUS", "GROUP", "SPECIFICS:">>)),
               Line(Plain(<<"-", "Handle", "sensitive", "topics", "with", "care">>)),
               Line(Plain(<<"-", "Explore", "trust", "and", "credibility", "factors">>)),
               Line(Plain(<<"-", "Understand", "patient/provider", "relationships">>)),
               Line(Plain(<<"-", "Investigate", "accessibility", "and", "convenience">>)),
               Line(Plain(<<"-", "Discuss", "privacy", "and", "security", "concerns">>)),
               Line(Plain(<<"-", "Focus", "on", "health", "outcomes", "and", "quality", "of",
                   "life">>)),
               Line(Plain(<<"-", "Be", "mindful", "of", "regulatory", "and", "ethical",
                   "considerations">>)),
               Indented(<<>>) >>
      [] template_type = "technology" ->
            << EmptyLine,
               EmptyLine,
               Line(Plain(<<"TECHNOLOGY", "FOCUS", "GROUP", "SPECIFICS:">>)),
               Line(Plain(<<"-", "Explore", "user", "experience", "and", "interface",
                   "preferences">>)),
               Line(Plain(<<"-", "Understand", "adoption", "barriers", "and", "drivers">>)),
               Line(Plain(<<"-", "Investigate", "feature", "priorities", "and", "usage",
                   "patterns">>)),
               Line(Plain(<<"-", "Discuss", "privacy", "and", "security", "concerns">>)),
               Line(Plain(<<"-", "Explore", "integration", "with", "existing", "workflows">>)),
               Line(Plain(<<"-", "Focus", "on", "learning", "curves", "and", "support", "needs">>)),
               Line(Plain(<<"-", "Consider", "generational", "and", "technical", "skill",
                   "differences">>)),
               Indented(<<>>) >>

\* self.base_templates[template_type]
base_templates(template_type) ==
    IF template_type = "standard" THEN _get_standard_template
    ELSE StrCat(_get_standard_template, specifics(template_type))

\* str.lower() of a word of a topic
Lower(str) ==
    CASE str = "Market" -> "market"
      [] str = "SALES" -> "sales"
      [] str = "Brand" -> "brand"
      [] str = "Health" -> "health"
      [] str = "Healthtech" -> "healthtech"
      [] str = "Retail" -> "retail"
      [] str = "App" -> "app"
      [] str = "Coffee" -> "coffee"
      [] OTHER -> str

\* the keywords of _classify_topic that are substrings of the string, as it
\* is written ('ai' is in 'retail', 'health' is not in 'Health')
ClassKeywordsIn(str) ==
    CASE str = "market" -> {"market"}
      [] str = "sales" -> {"sales"}
      [] str = "brand" -> {"brand"}
      [] str = "shopping" -> {"shopping"}
      [] str = "health" -> {"health"}
      [] str = "healthtech" -> {"health", "tech"}
      [] str = "Healthtech" -> {"tech"}
      [] str \in {"retail", "Retail"} -> {"ai"}
      [] str = "app" -> {"app"}
      [] OTHER -> {}

business_keywords == {"market", "business", "strategy", "sales", "revenue", "b2b"}
consumer_keywords == {"consumer", "customer", "shopping", "purchase", "brand", "product"}
healthcare_keywords == {"health", "medical", "hospital", "doctor", "patient", "wellness"}
technology_keywords == {"technology", "app", "software", "digital", "ai", "tech", "platform"}

\* any(keyword in topic for keyword in keywords): no keyword has a blank, so
\* a keyword in the topic is in one of its words
AnyKeywordIn(topic, keywords) ==
    \E i \in 1..Len(topic) : ClassKeywordsIn(topic[i]) \cap keywords # {}

\* a variant that asks for the technology keywords first
_classify_topic_TechnologyFirst(topic) ==
    IF AnyKeywordIn(topic, technology_keywords) THEN "technology"
    ELSE IF AnyKeywordIn(topic, business_keywords) THEN "business"
    ELSE IF AnyKeywordIn(topic, consumer_keywords) THEN "consumer"
    ELSE IF AnyKeywordIn(topic, healthcare_keywords) THEN "healthcare"
    ELSE "standard"

_classify_topic(topic) ==
    IF AnyKeywordIn(topic, business_keywords) THEN "business"
    ELSE IF AnyKeywordIn(topic, consumer_keywords) THEN "consumer"
    ELSE IF AnyKeywordIn(topic, healthcare_keywords) THEN "healthcare"
    ELSE IF AnyKeywordIn(topic, technology_keywords) THEN "technology"
    ELSE "standard"

\* the customizations (the commas and the slashes that join the languages
\* are not words of their own)
customizations(form_data) ==
    << EmptyLine,
       Line(Plain(<<"STUDY-SPECIFIC", "CUSTOMIZATIONS:">>)),
       EmptyLine,
       Line(Plain(<<"Topic:">>) \o Plain(form_data.topic)),
       Line(Plain(<<"Objective:">>) \o Plain(form_data.objective)),
       Line(Plain(<<"Location:">>) \o Plain(form_data.location)),
       Line(Plain(<<"Duration:">>) \o <<Num(form_data.duration)>> \o Plain(<<"minutes">>)),
       Line(Plain(<<"Participants:">>) \o <<Num(form_data.num_participants)>>
            \o Plain(<<"people">>)),
       Line(Plain(<<"Demographics:">>) \o Plain(form_data.demographics)),
       Line(Plain(<<"Languages:">>) \o Plain(form_data.languages)),
       Line(Plain(<<"Discussion", "Type:", form_data.discussion_type>>)),
       EmptyLine,
       Line(Plain(<<"PARTICIPANT", "PERSONAS", "TO", "CREATE:">>)),
       Line(Plain(<<"-", "Generate">>) \o <<Num(form_data.num_participants)>>
            \o Plain(<<"distinct", "participants">>)),
       Line(Plain(<<"-">>) \o <<Num(form_data.male_count)>>
            \o Plain(<<"male", "participants">>)),
       Line(Plain(<<"-">>) \o <<Num(form_data.female_count)>>
            \o Plain(<<"female", "participants">>)),
       Line(Plain(<<"-">>) \o <<Num(form_data.non_binary_count)>>
            \o Plain(<<"non-binary", "participants">>)),
       Line(Plain(<<"-", "Age", "range:", form_data.age_range>>)),
       Line(Plain(<<"-", "Background:">>) \o Plain(form_data.demographics)),
       EmptyLine,
       Line(Plain(<<"CULTURAL", "AND", "LINGUISTIC", "REQUIREMENTS:">>)),
       Line(Plain(<<"-", "Incorporate">>) \o Plain(form_data.location)
            \o Plain(<<"cultural", "context">>)),
       Line(Plain(<<"-", "Use">>) \o Plain(form_data.languages)
            \o Plain(<<"language", "patterns">>)),
       Line(Plain(<<"-", "Include", "relevant", "local", "references", "and", "idioms">>)),
       Line(Plain(<<"-", "Reflect", "authentic", "regional", "communication", "styles">>)),
       EmptyLine,
       Indented(<<>>) >>

\* template + customizations
_customize_template(template, form_data) == StrCat(template, customizations(form_data))

\* generate_enhanced_prompt ("\n\n" is three empty lines end to end)
generate_enhanced_prompt(form_data, base_prompt) ==
    LET topic == [i \in 1..Len(form_data.topic) |-> Lower(form_data.topic[i])]
        template_type == _classify_topic(topic)
        customized_prompt == _customize_template(base_templates(template_type), form_data)
    IN IF base_prompt # EmptyText
       THEN StrCat(StrCat(base_prompt, <<EmptyLine, EmptyLine, EmptyLine>>),
                   customized_prompt)
       ELSE customized_prompt

----------------------------------------------------------------------------
(* TranscriptGenerator._get_language_patterns *)

\* patterns[lang_lower], for the languages whose entry is a text
patterns(lang_lower) ==
    CASE lang_lower = "hinglish" ->
            << EmptyLine,
               Line(Plain(<<"-", "Mix", "English", "and", "Hindi", "naturally:", "\"I", "think",
                   "it's", "accha\",", "\"Cost", "is", "too", "much", "yaar\"">>)),
               Line(Plain(<<"-", "Use", "Indian", "English", "patterns:", "\"I", "am",
                   "doing\",", "\"good", "name\",", "\"what", "is", "your", "good",
                   "name\"">>)),
               Line(Plain(<<"-", "Include", "fillers:", "\"na\",", "\"yaar\",", "\"arre\",",
                   "\"bas\"">>)),
               Line(Plain(<<"-", "Common", "phrases:", "\"time", "pass\",", "\"tension", "mat",
                   "lo\",", "\"scene", "kya", "hai\"">>)),
               Indented(<<>>) >>
      [] lang_lower = "hindi" ->
            << EmptyLine,
               Line(Plain(<<"-", "Use", "Devanagari", "transliterations", "when", "appropriate">>)),
               Line(Plain(<<"-", "Include", "respectful", "forms:", "\"aap\",", "\"ji\"">>)),
               Line(Plain(<<"-", "Regional", "variations", "based", "on", "location">>)),
               Line(Plain(<<"-", "Natural", "Hindi", "sentence", "structures">>)),
               Indented(<<>>) >>
      [] lang_lower = "french" ->
            << EmptyLine,
               Line(Plain(<<"-", "Include", "\"euh\",", "\"ben\",", "\"alors\"", "as", "fillers">>)),
               Line(Plain(<<"-", "Use", "formal/informal", "variations", "appropriately">>)),
               Line(Plain(<<"-", "Canadian", "French", "differences", "if", "Quebec", "location">>)),
               Line(Plain(<<"-", "Natural", "French", "interruption", "patterns">>)),
               Indented(<<>>) >>

\* patterns['english'][region]
english_patterns(region) ==
    CASE region = "india" ->
            << EmptyLine,
               Line(Plain(<<"-", "Indian", "English", "patterns:", "\"I", "am", "having\",",
                   "\"good", "name\"">>)),
               Line(Plain(<<"-", "Local", "accent", "markers:", "\"w\"", "sounds,", "rhythm",
                   "patterns">>)),
               Line(Plain(<<"-", "Mix", "of", "formal", "and", "casual", "based", "on",
                   "education", "level">>)),
               Indented(<<>>) >>
      [] region = "uk" ->
            << EmptyLine,
               Line(Plain(<<"-", "British", "expressions:", "\"brilliant\",", "\"quite\",",
                   "\"rather\"">>)),
               Line(Plain(<<"-", "Regional", "accents", "if", "specified">>)),
               Line(Plain(<<"-", "Understatement", "and", "politeness", "patterns">>)),
               Indented(<<>>) >>
      [] region = "usa" ->
            << EmptyLine,
               Line(Plain(<<"-", "American", "casual", "speech:", "\"like\",", "\"you",
                   "know\",", "\"totally\"">>)),
               Line(Plain(<<"-", "Regional", "variations", "if", "location", "specified">>)),
               Line(Plain(<<"-", "Direct", "communication", "style">>)),
               Indented(<<>>) >>
      [] region = "canada" ->
            << EmptyLine,
               Line(Plain(<<"-", "Canadian", "markers:", "\"eh\",", "\"about\"", "pronunciation">>)),
               Line(Plain(<<"-", "Polite", "communication", "patterns">>)),
               Line(Plain(<<"-", "Multicultural", "influences">>)),
               Indented(<<>>) >>

\* the keys of patterns['english'], in order
english_regions == <<"india", "uk", "usa", "canada">>

\* lang.lower()
LangLower(lang) ==
    CASE lang = "English" -> "english"
      [] lang = "Hindi" -> "hindi"
      [] lang = "Hinglish" -> "hinglish"
      [] lang = "French" -> "french"
      [] lang = "Spanish" -> "spanish"
      [] lang = "Mandarin" -> "mandarin"
      [] lang = "Arabic" -> "arabic"
      [] lang = "Portuguese" -> "portuguese"

\* f"{lang}: {text}"
Labelled(lang, text) == StrCat(<<Line(<<W(lang \o ":")>>)>>, text)

\* a variant that gives English the entry of the last region found
LanguageEntry_LastRegion(lang, location) ==
    LET lang_lower == LangLower(lang)
        found == {r \in 1..Len(english_regions) : LocationHas(location, english_regions[r])}
    IN IF lang_lower = "english"
       THEN IF found # {}
            THEN Labelled(lang, english_patterns(english_regions[Largest(found)]))
            ELSE <<Line(<<W(lang \o ":"), W("Standard"), W(lang), W("patterns")>>)>>
       ELSE IF lang_lower \in {"hinglish", "hindi", "french"}
       THEN Labelled(lang, patterns(lang_lower))
       ELSE <<Line(<<W(lang \o ":")>> \o Plain(<<"Use", "natural", lang, "speech",
                   "patterns", "with", "local", "dialect", "variations">>))>>

\* what the loop appends to result for one language
LanguageEntry(lang, location) ==
    LET lang_lower == LangLower(lang)
        r == FirstLocation(location, english_regions, 1)
    IN IF lang_lower = "english"
       THEN IF r # 0
            THEN Labelled(lang, english_patterns(english_regions[r]))
            ELSE <<Line(<<W(lang \o ":"), W("Standard"), W(lang), W("patterns")>>)>>
       ELSE IF lang_lower \in {"hinglish", "hindi", "french"}
       THEN Labelled(lang, patterns(lang_lower))
       ELSE <<Line(<<W(lang \o ":")>> \o Plain(<<"Use", "natural", lang, "speech",
                   "patterns", "with", "local", "dialect", "variations">>))>>

\* "\n".join(result) of the first n entries
RECURSIVE JoinEntries(_, _, _)
JoinEntries(languages, location, n) ==
    IF n = 0 THEN <<>>
    ELSE JoinEntries(languages, location, n - 1) \o LanguageEntry(languages[n], location)

_get_language_patterns(languages, location) ==
    IF languages = <<>> THEN EmptyText
    ELSE JoinEntries(languages, location, Len(languages))

----------------------------------------------------------------------------
(* app.py: the session and its pages.  One run of the script is one step:  *)
(* main() draws the sidebar and renders the page of the current step with  *)
(* the widget values and the button the user chose for that run.           *)

\* AI_PROVIDERS[provider]['models']
ProviderModels(provider) ==
    CASE provider = "openai" -> {"gpt-4-turbo", "gpt-4", "gpt-3.5-turbo"}
      [] provider = "anthropic" -> {"claude-3-opus-20240229", "claude-3-sonnet-20240229",
                                    "claude-3-haiku-20240307"}
      [] provider = "google" -> {"gemini-pro", "gemini-pro-vision"}
      [] provider = "cohere" -> {"command", "command-light"}
      [] provider = "mistral" -> {"mistral-large-latest", "mistral-medium-latest",
                                  "mistral-small-latest"}

\* AI_PROVIDERS[provider]['languages']
ProviderLanguages(provider) ==
    CASE provider = "openai" -> {"English", "Hindi", "Hinglish", "French", "Spanish",
                                 "Mandarin", "Arabic"}
      [] provider = "anthropic" -> {"English", "French", "Spanish", "Portuguese"}
      [] provider = "google" -> {"English", "Hindi", "Hinglish", "French", "Spanish",
                                 "Mandarin", "Arabic", "Portuguese"}
      [] provider = "cohere" -> {"English", "French", "Spanish"}
      [] provider = "mistral" -> {"English", "French", "Spanish", "Portuguese"}

Range(seq) == {seq[i] : i \in 1..Len(seq)}

\* len([l for l in provider['languages'] if l in selected_languages])
lang_support(provider, selected_languages) ==
    Cardinality(ProviderLanguages(provider) \cap Range(selected_languages))

\* a variant that looks for 'Hindi' only
get_recommended_provider_HindiOnly(selected_languages) ==
    IF "Hindi" \in Range(selected_languages)
    THEN "google"
    ELSE IF Len(selected_languages) = 1 /\ "French" \in Range(selected_languages)
    THEN "mistral"
    ELSE "openai"

\* a variant whose French test leaves out len(selected_languages) == 1
get_recommended_provider_AnyFrench(selected_languages) ==
    IF "Hindi" \in Range(selected_languages) \/ "Hinglish" \in Range(selected_languages)
    THEN "google"
    ELSE IF "French" \in Range(selected_languages)
    THEN "mistral"
    ELSE "openai"

get_recommended_provider(selected_languages) ==
    IF "Hindi" \in Range(selected_languages) \/ "Hinglish" \in Range(selected_languages)
    THEN "google"
    ELSE IF Len(selected_languages) = 1 /\ "French" \in Range(selected_languages)
    THEN "mistral"
    ELSE IF Len(selected_languages) = 1 /\ "English" \in Range(selected_languages)
    THEN "openai"
    ELSE "openai"

\* st.session_state.api_config = {}
EmptyConfig == [provider |-> "", api_key |-> "", model |-> ""]

\* a variant whose core discussion takes 60% of the words
word_breakdown_Core60(estimated_words) ==
    << (estimated_words * 15) \div 100, (estimated_words * 10) \div 100,
       (estimated_words * 60) \div 100, (estimated_words * 10) \div 100 >>

\* int(estimated_words * 0.15), int(estimated_words * 0.10),
\* int(estimated_words * 0.65), int(estimated_words * 0.10): the words of the
\* opening, the warm-up, the core discussion and the closing
word_breakdown(estimated_words) ==
    << (estimated_words * 15) \div 100, (estimated_words * 10) \div 100,
       (estimated_words * 65) \div 100, (estimated_words * 10) \div 100 >>

\* the lines of the prompt of render_prompt_page that are computed from the
\* form data, in their order (the lines between them are fixed text)
PromptText(form_data) ==
    LET estimated_words == calculate_word_count(form_data.duration)
        words == word_breakdown(estimated_words)
    IN << Line(Plain(<<"FOCUS", "GROUP", "DISCUSSION", "GENERATOR", "PROMPT">>)),
          Line(Plain(<<"-", "Participants:">>) \o <<Num(form_data.num_participants)>>
               \o Plain(<<"total">>)
               \o << [w |-> "(<n>M,", m |-> form_data.male_count, s |-> 0],
                     [w |-> "<n>F,", m |-> form_data.female_count, s |-> 0],
                     [w |-> "<n>NB)", m |-> form_data.non_binary_count, s |-> 0] >>),
          Line(Plain(<<"-", "Age", "Range:", form_data.age_range>>)),
          Line(Plain(<<"-", "Demographics:">>) \o Plain(form_data.demographics)),
          Line(Plain(<<"-", "Topic:">>) \o Plain(form_data.topic)),
          Line(Plain(<<"-", "Objective:">>) \o Plain(form_data.objective)),
          Line(Plain(<<"-", "Duration:">>) \o <<Num(form_data.duration)>>
               \o Plain(<<"minutes", "(Target:">>) \o <<TildeNum(estimated_words)>>
               \o Plain(<<"words)">>)),
          Line(Plain(<<"-", "Location:">>) \o Plain(form_data.location)),
          Line(Plain(<<"-", "Type:", form_data.discussion_type>>)),
          Line(Plain(<<"-", "Languages:">>) \o Plain(form_data.languages)),
          Line(Plain(<<"1.", "Research", "the", "topic">>) \o Plain(form_data.topic)
               \o Plain(<<"thoroughly", "for">>) \o Plain(form_data.location)),
          Line(Plain(<<"1.", "Opening", "(15%", "-">>) \o <<Num(words[1])>>
               \o Plain(<<"words):">>)),
          Line(Plain(<<"2.", "Warm-up", "(10%", "-">>) \o <<Num(words[2])>>
               \o Plain(<<"words):">>)),
          Line(Plain(<<"3.", "Core", "Discussion", "(65%", "-">>) \o <<Num(words[3])>>
               \o Plain(<<"words):">>)),
          Line(Plain(<<"4.", "Closing", "(10%", "-">>) \o <<Num(words[4])>>
               \o Plain(<<"words):">>)),
          Line(Plain(<<"-", "Use", "local", "references", "and", "cultural", "context",
                       "from">>) \o Plain(form_data.location)),
          Line(Plain(<<"-", "Include", "appropriate", "dialect/accent", "markers",
                       "for">>) \o Plain(form_data.languages)),
          Line(Plain(<<"Generate">>) \o <<Num(form_data.num_participants)>>
               \o Plain(<<"distinct", "personalities", "with:">>)),
          Line(Plain(<<"-", "Realistic", "names", "appropriate", "for">>)
               \o Plain(form_data.location)) >>

\* the prompt render_prompt_page composes from the form data
ComposedPrompt(form_data) ==
    [text |-> PromptText(form_data), kind |-> "composed", form |-> form_data]
\* a prompt the user typed over the composed one
EditedPrompt ==
    [text |-> <<Line(Plain(<<"Write", "a", "transcript">>))>>, kind |-> "edited", form |-> NoForm]
\* ""
NoPrompt == [text |-> EmptyText, kind |-> "empty", form |-> NoForm]

\* the sample transcript render_generating_page writes: its title, its
\* metadata lines and its first moderator turn
SampleTranscript(form_data) ==
    << Line(Plain(<<"FOCUS", "GROUP", "DISCUSSION", "TRANSCRIPT">>)),
       Line(Plain(<<"Topic:">>) \o Plain(form_data.topic)),
       Line(Plain(<<"Duration:">>) \o <<Num(form_data.duration)>> \o Plain(<<"minutes">>)),
       Line(Plain(<<"Location:">>) \o Plain(form_data.location)),
       Line(<<Stamp(0, 0), W("MODERATOR:")>> \o Plain(<<"Good", "morning", "everyone,">>)) >>

\* the st.error lines of the form page; none of them names the provider
InvalidKeyError == Msg("error", "Invalid API key format", "", "")
GenderTotalError == Msg("error", "Gender counts (n) don't match total participants (m)", "", "")
RequiredFieldsError ==
    Msg("error", "Please fill in all required fields: Topic, Objective, and Location", "", "")
NotConfiguredError == Msg("error", "Please configure your AI provider and API key", "", "")
GenderSubmitError == Msg("error", "Gender counts don't match total participants", "", "")
\* no line: the form is accepted
Accepted == Msg("", "", "", "")

\* a variant of render_api_configuration that stores the pair unchecked
StoredApiConfig_Unchecked(config, selected_provider, selected_model, api_key) ==
    IF api_key # ""
    THEN [provider |-> selected_provider, api_key |-> api_key,
          model |-> selected_model]
    ELSE config

\* render_api_configuration: st.session_state.api_config after the run
StoredApiConfig(config, selected_provider, selected_model, api_key) ==
    IF api_key # ""
    THEN IF validate_api_key(selected_provider, api_key)
         THEN [provider |-> selected_provider, api_key |-> api_key,
               model |-> selected_model]
         ELSE EmptyConfig
    ELSE config

\* a variant of the button's checks without the gender-count check
SubmitError_NoGenderCheck(form_data, config) ==
    IF form_data.topic = <<>> \/ form_data.objective = <<>> \/ form_data.location = <<>>
    THEN RequiredFieldsError
    ELSE IF config.api_key = ""
    THEN NotConfiguredError
    ELSE Accepted

\* the checks of the "Generate Research Prompt" button, in the code's order:
\* the error shown, or Accepted
SubmitError(form_data, config) ==
    IF form_data.topic = <<>> \/ form_data.objective = <<>> \/ form_data.location = <<>>
    THEN RequiredFieldsError
    ELSE IF config.api_key = ""
    THEN NotConfiguredError
    ELSE IF ~GenderCountsMatch(form_data)
    THEN GenderSubmitError
    ELSE Accepted

\* render_form with the widget values in.form, in.provider, in.model,
\* in.api_key and the button in.pressed
render_form(in) ==
    LET config == StoredApiConfig(api_config, in.provider, in.model, in.api_key)
        err == SubmitError(in.form, config)
    IN /\ api_config' = config
       /\ sess_form' = in.form
       /\ shown' = (IF in.api_key # "" /\ ~validate_api_key(in.provider, in.api_key)
                    THEN {InvalidKeyError} ELSE {})
                   \cup (IF ~GenderCountsMatch(in.form) THEN {GenderTotalError} ELSE {})
                   \cup (IF in.pressed /\ err # Accepted THEN {err} ELSE {})
       /\ step' = IF in.pressed /\ err = Accepted THEN "prompt" ELSE "form"
       /\ UNCHANGED <<generated_prompt, generated_transcript>>

\* render_prompt_page with the edit of the text area in.edit and the button
\* in.button
render_prompt_page(in) ==
    LET prompt == IF generated_prompt = NoPrompt
                  THEN ComposedPrompt(sess_form) ELSE generated_prompt
        edited_prompt == CASE in.edit = "keep" -> prompt
                           [] in.edit = "edit" -> EditedPrompt
                           [] in.edit = "clear" -> NoPrompt
    IN /\ generated_prompt' = edited_prompt
       /\ step' = CASE in.button = "back" -> "form"
                    [] in.button = "generate" -> "generating"
                    [] OTHER -> step
       /\ shown' = {}
       /\ UNCHANGED <<sess_form, api_config, generated_transcript>>

render_generating_page ==
    /\ generated_transcript' =
          IF generated_transcript = EmptyText
          THEN SampleTranscript(sess_form) ELSE generated_transcript
    /\ step' = "result"
    /\ shown' = {}
    /\ UNCHANGED <<sess_form, api_config, generated_prompt>>

\* render_result_page with the button in.button; the keys "Generate New"
\* deletes are set to "" again at the top of the next run
render_result_page(in) ==
    /\ IF in.button = "new"
       THEN /\ generated_prompt' = NoPrompt
            /\ generated_transcript' = EmptyText
            /\ step' = "form"
       ELSE UNCHANGED <<generated_prompt, generated_transcript, step>>
    /\ shown' = {}
    /\ UNCHANGED <<sess_form, api_config>>

\* str.title() of the step
Title(str) ==
    CASE str = "form" -> "Form"
      [] str = "prompt" -> "Prompt"
      [] str = "generating" -> "Generating"
      [] str = "result" -> "Result"

\* the sidebar's step list
SidebarSteps == {"Form", "Prompt", "Generate", "Result"}

\* main(): steps.index(...) raises ValueError for a step that is not in the
\* list, and the run ends there
Main(in) ==
    /\ IF Title(step) \notin SidebarSteps
       THEN /\ crashed' = TRUE
            /\ UNCHANGED <<step, sess_form, api_config, generated_prompt,
                           generated_transcript, shown>>
       ELSE /\ crashed' = FALSE
            /\ CASE step = "form" -> render_form(in)
                 [] step = "prompt" -> render_prompt_page(in)
                 [] step = "generating" -> render_generating_page
                 [] step = "result" -> render_result_page(in)
    /\ UNCHANGED gwvars
    /\ UNCHANGED fnvars

\* the state of a fresh session
UiIdle ==
    /\ step = "form"
    /\ sess_form = NoForm
    /\ api_config = EmptyConfig
    /\ generated_prompt = NoPrompt
    /\ generated_transcript = EmptyText
    /\ shown = {}
    /\ crashed = FALSE

----------------------------------------------------------------------------
(* The gateway's operations, called with inputs drawn from bounded sets *)

MaxCalls == 2

ProviderNames == KnownProviders \cup {"other"}
ApiKeys == {"KeyA", "KeyB"}
Models == {"model-a", "model-b"}
Forms == {EvMumbai, FoodParis}
Prompts == {ComposedPrompt(EvMumbai), EditedPrompt}
\* a form with a prompt: a composed prompt goes with the form it was composed from
Studies ==
    {x \in [prompt : Prompts, form : Forms] :
        x.prompt.kind = "composed" => x.prompt.form = x.form}
SampleText == <<Line(<<W("MODERATOR:"), W("hello")>>), Line(<<W("P1:"), W("hello")>>)>>
Responses ==
    {Resp("raise", <<>>, "network failure")}
    \cup {Resp(k, <<>>, "") : k \in {"null", "no_field", "empty_list", "no_text", "null_text"}}
    \cup {Resp("text", t, "") : t \in {EmptyText, SampleText}}
\* the gateway is called with a credential of the right shape
GatewayKeys == {"KeyA"}
ApiConfigs == [provider : ProviderNames, api_key : GatewayKeys, model : Models]

InitializeProvider(provider_name, api_key, model, throws) ==
    /\ calls < MaxCalls
    /\ throws => provider_name \in KnownProviders
    /\ \E r \in {initialize_provider(providers, provider_name, api_key, model, throws)} :
          /\ providers' = r.providers
          /\ ret' = r.ret
          /\ inits' = r.inits
          /\ messages' = r.messages
    /\ op' = Op("initialize_provider", provider_name, api_key, model, NoForm)
    /\ response' = NoResponse
    /\ requests' = <<>>
    /\ calls' = calls + 1
    /\ UNCHANGED fnvars
    /\ UNCHANGED uivars

GenerateTranscript(provider_name, prompt, form_data, resp) ==
    /\ calls < MaxCalls
    /\ (resp = NoResponse) <=> (provider_name \notin DOMAIN providers)
    /\ \E r \in {generate_transcript(providers, provider_name, prompt, form_data, resp)} :
          /\ ret' = r.ret
          /\ requests' = r.requests
          /\ messages' = r.messages
    /\ op' = Op("generate_transcript", provider_name, "", "", form_data)
    /\ response' = resp
    /\ inits' = <<>>
    /\ calls' = calls + 1
    /\ UNCHANGED providers
    /\ UNCHANGED fnvars
    /\ UNCHANGED uivars

GenerateFullTranscript(form_data, config, base_prompt, throws, resp) ==
    /\ calls < MaxCalls
    /\ throws => config.provider \in KnownProviders
    /\ (resp = NoResponse) <=> (throws \/ config.provider \notin KnownProviders)
    /\ \E r \in {generate_full_transcript(providers, form_data, config,
                                            base_prompt, throws, resp)} :
          /\ providers' = r.providers
          /\ ret' = r.ret
          /\ inits' = r.inits
          /\ requests' = r.requests
          /\ messages' = r.messages
    /\ op' = Op("generate_full_transcript", config.provider, config.api_key,
                config.model, form_data)
    /\ response' = resp
    /\ calls' = calls + 1
    /\ UNCHANGED fnvars
    /\ UNCHANGED uivars

GwIdle ==
    /\ providers = <<>>
    /\ op = NoOp
    /\ response = NoResponse
    /\ ret = NoReturn
    /\ requests = <<>>
    /\ inits = <<>>
    /\ messages = <<>>
    /\ calls = 0

\* no form, no languages, nothing returned
FnRestIdle ==
    /\ arg_form = NoForm
    /\ arg_languages = <<>>
    /\ out_provider = ""
    /\ reports = <<>>
    /\ phases = <<>>

FnIdle ==
    /\ fn = "none"
    /\ arg_text = <<>>
    /\ arg_duration = 0
    /\ out_text = <<>>
    /\ FnRestIdle

Init == GwIdle /\ FnIdle /\ UiIdle

Next ==
    \/ \E p \in ProviderNames, k \in GatewayKeys, m \in Models, t \in BOOLEAN :
          InitializeProvider(p, k, m, t)
    \/ \E p \in ProviderNames, x \in Studies, r \in Responses \cup {NoResponse} :
          GenerateTranscript(p, x.prompt, x.form, r)
    \/ \E x \in Studies, c \in ApiConfigs, t \in BOOLEAN,
          r \in Responses \cup {NoResponse} :
          GenerateFullTranscript(x.form, c, x.prompt, t, r)

Spec == Init /\ [][Next]_vars

----------------------------------------------------------------------------
(* The session, with the pipeline's entry point called beside it *)

NoTopic == FormData(4, 2, 2, 0, 15, <<>>, <<"Paris,", "France">>, <<"French">>)
UiForms == {EvMumbai, FoodParis, Mismatched, NoTopic}

UiInput(form, provider, model, api_key, pressed, edit, button) ==
    [provider |-> provider, api_key |-> api_key, model |-> model, form |-> form,
     pressed |-> pressed, edit |-> edit, button |-> button]

\* what the user can enter on the page of the current step
UiInputs ==
    CASE step = "form" ->
            UNION {{UiInput(f, p, m, k, b, "keep", "none") :
                        f \in UiForms, m \in ProviderModels(p),
                        k \in ApiKeys \cup {""}, b \in BOOLEAN} : p \in KnownProviders}
      [] step = "prompt" ->
            {UiInput(NoForm, "", "", "", FALSE, e, b) :
                e \in {"keep", "edit", "clear"}, b \in {"none", "back", "generate"}}
      [] step = "result" ->
            {UiInput(NoForm, "", "", "", FALSE, "keep", b) : b \in {"none", "new"}}
      [] OTHER -> {UiInput(NoForm, "", "", "", FALSE, "keep", "none")}

AppConfigs == [provider : {"mistral"}, api_key : ApiKeys, model : {"mistral-small-latest"}]

AppNext ==
    \/ \E in \in UiInputs : Main(in)
    \/ \E f \in {EvMumbai, Mismatched}, c \in AppConfigs :
          GenerateFullTranscript(f, c, ComposedPrompt(f), FALSE,
                                 Resp("text", SampleText, ""))

SpecApp == Init /\ [][AppNext]_vars

----------------------------------------------------------------------------
(* The pure functions, applied to inputs drawn from bounded sets *)

MaxLines == 3

\* the lines the inputs are built from
LineLib == {
    Line(<<Stamp(0, 10), W("MODERATOR:"), W("hello")>>),
    Line(<<Stamp(0, 0), W("P1:"), W("hello")>>),
    Line(<<W("MODERATOR:"), W("hello")>>),
    Line(<<W("P1:"), W("hello")>>),
    Indented(<<W("P2:"), W("hello")>>),
    Indented(<<Stamp(0, 5), W("P2:"), W("hello")>>),
    Line(<<W("PARTICIPANT"), W("1:"), W("hello")>>),
    Line(<<W("[Various"), W("nod]")>>),
    Line(<<W("hello")>>),
    EmptyLine }

Transcripts == UNION {[1..n -> LineLib] : n \in 1..MaxLines}

Durations == {15, 60, 180}

FnInit ==
    /\ fn = "none"
    /\ arg_text \in Transcripts
    /\ arg_duration \in Durations
    /\ out_text = <<>>
    /\ FnRestIdle

AddTimestamps ==
    /\ fn = "none"
    /\ fn' = "_add_timestamps"
    /\ out_text' = _add_timestamps(arg_text, arg_duration)
    /\ UNCHANGED <<arg_text, arg_duration>>
    /\ UNCHANGED fnrest
    /\ UNCHANGED gwvars
    /\ UNCHANGED uivars

RepairInit == FnInit /\ GwIdle /\ UiIdle
RepairNext == AddTimestamps
SpecRepair == RepairInit /\ [][RepairNext]_vars

----------------------------------------------------------------------------
(* _adjust_word_count on bodies whose word counts lie around 0.8 and 1.2 of *)
(* the expected count (specification SpecAdjust)                            *)

\* the durations of the bodies below
AdjustDurations == {15, 60}

\* runs that two or three more words bring to 0.8 or 1.2 of the expected count
RunLengths ==
    UNION {{(8 * calculate_word_count(d)) \div 10 - 3, (8 * calculate_word_count(d)) \div 10 - 2,
            (12 * calculate_word_count(d)) \div 10 - 3, (12 * calculate_word_count(d)) \div 10 - 2}
           : d \in AdjustDurations}

AdjustLines ==
    {Line(<<Run(n)>>) : n \in RunLengths}
        \cup {Line(<<W("P1:"), W("hello")>>),
              Line(<<Stamp(0, 0), W("MODERATOR:"), W("hello")>>),
              EmptyLine}

Bodies == UNION {[1..n -> AdjustLines] : n \in 1..MaxLines}

\* form_data with form_data['duration'] = duration
FormOfDuration(duration) ==
    FormData(8, 4, 4, 0, duration, <<"Electric", "Vehicle", "Adoption">>,
             <<"Mumbai,", "India">>, <<"Hindi", "English">>)

AdjustInit ==
    /\ fn = "none"
    /\ arg_text \in Bodies
    /\ arg_duration \in AdjustDurations
    /\ out_text = <<>>
    /\ FnRestIdle
    /\ GwIdle
    /\ UiIdle

AdjustWordCount ==
    /\ fn = "none"
    /\ fn' = "_adjust_word_count"
    /\ out_text' = _adjust_word_count(arg_text, FormOfDuration(arg_duration))
    /\ UNCHANGED <<arg_text, arg_duration>>
    /\ UNCHANGED fnrest
    /\ UNCHANGED gwvars
    /\ UNCHANGED uivars

AdjustNext == AdjustWordCount
SpecAdjust == AdjustInit /\ [][AdjustNext]_vars

----------------------------------------------------------------------------
(* get_recommended_provider on the selections of the language multiselect   *)
(* (specification SpecRecommend)                                            *)

MaxLangs == 3

\* available_languages
AvailableLanguages == {"English", "Hindi", "Hinglish", "French", "Spanish", "Mandarin",
                       "Arabic", "Portuguese"}

\* a multiselect returns each option at most once, in the order chosen
Selections ==
    {q \in UNION {[1..n -> AvailableLanguages] : n \in 0..MaxLangs} :
        \A i, j \in 1..Len(q) : i # j => q[i] # q[j]}

RecommendInit ==
    /\ fn = "none"
    /\ arg_text = <<>>
    /\ arg_duration = 0
    /\ out_text = <<>>
    /\ arg_form = NoForm
    /\ arg_languages \in Selections
    /\ out_provider = ""
    /\ reports = <<>>
    /\ phases = <<>>
    /\ GwIdle
    /\ UiIdle

GetRecommendedProvider ==
    /\ fn = "none"
    /\ fn' = "get_recommended_provider"
    /\ out_provider' = get_recommended_provider(arg_languages)
    /\ UNCHANGED <<arg_text, arg_duration, out_text, arg_form, arg_languages,
                   reports, phases>>
    /\ UNCHANGED gwvars
    /\ UNCHANGED uivars

RecommendNext == GetRecommendedProvider
SpecRecommend == RecommendInit /\ [][RecommendNext]_vars

----------------------------------------------------------------------------
(* validate_transcript_quality on short transcripts (specification          *)
(* SpecQuality)                                                             *)

MaxReports == 2

\* the lines of the audited transcripts
QualityLines == {
    Line(<<Stamp(0, 0), W("MODERATOR:"), W("Welcome")>>),
    Line(<<Stamp(0, 5), W("P1:"), W("I"), W("think"), W("yaar"), Run(2000)>>),
    Line(<<Stamp(0, 5), W("P1:"), W("I"), W("think"), W("yaar"), Run(8000)>>),
    Line(<<Stamp(0, 10), W("MODERATOR:"), W("Thank"), W("you")>>),
    Line(<<W("P2:"), W("hello")>>),
    Line(<<W("hello"), W("friend")>>),
    Line(<<W("PARTICIPANT"), W("1:"), W("hello")>>),
    Line(<<Run(300)>>),
    EmptyLine }

Audited == UNION {[1..n -> QualityLines] : n \in 1..MaxLines}

QualityInit ==
    /\ fn = "none"
    /\ arg_text \in Audited
    /\ arg_duration = 0
    /\ out_text = <<>>
    /\ arg_form \in {EvMumbai, FoodParis}
    /\ arg_languages = <<>>
    /\ out_provider = ""
    /\ reports = <<>>
    /\ phases = <<>>
    /\ GwIdle
    /\ UiIdle

ValidateTranscriptQuality ==
    /\ Len(reports) < MaxReports
    /\ fn \in {"none", "validate_transcript_quality"}
    /\ fn' = "validate_transcript_quality"
    /\ reports' = Append(reports, validate_transcript_quality(arg_text, arg_form))
    /\ UNCHANGED <<arg_text, arg_duration, out_text, arg_form, arg_languages,
                   out_provider, phases>>
    /\ UNCHANGED gwvars
    /\ UNCHANGED uivars

QualityNext == ValidateTranscriptQuality
SpecQuality == QualityInit /\ [][QualityNext]_vars

----------------------------------------------------------------------------
(* _post_process_transcript on raw provider texts (specification SpecPost) *)

\* the raw texts: the short transcripts of the timestamp repair, and long
\* ones of one line
RawTexts == Transcripts \cup {<<Line(<<Run(n)>>)>> : n \in RunLengths}

PostInit ==
    /\ fn = "none"
    /\ arg_text \in RawTexts
    /\ arg_duration = 0
    /\ out_text = <<>>
    /\ arg_form \in {EvMumbai, FoodParis}
    /\ arg_languages = <<>>
    /\ out_provider = ""
    /\ reports = <<>>
    /\ phases = <<>>
    /\ GwIdle
    /\ UiIdle

PostProcessTranscript ==
    /\ fn = "none"
    /\ fn' = "_post_process_transcript"
    /\ out_text' = _post_process_transcript(arg_text, arg_form)
    /\ UNCHANGED <<arg_text, arg_duration, arg_form, arg_languages,
                   out_provider, reports, phases>>
    /\ UNCHANGED gwvars
    /\ UNCHANGED uivars

PostNext == PostProcessTranscript
SpecPost == PostInit /\ [][PostNext]_vars

----------------------------------------------------------------------------
(* _research_topic on short topics and locations (specification            *)
(* SpecResearch)                                                            *)

MaxTopicWords == 2

TopicWords == {"Electric", "Vehicle", "Food", "Delivery", "Coffee"}
LocationWords == {"Mumbai,", "India", "France", "USA", "Global", "Toronto,"}
Topics == UNION {[1..n -> TopicWords] : n \in 1..MaxTopicWords}
Locations == UNION {[1..n -> LocationWords] : n \in 1..MaxTopicWords}

ResearchInit ==
    /\ fn = "none"
    /\ arg_text = <<>>
    /\ arg_duration = 0
    /\ out_text = <<>>
    /\ arg_form \in {FormData(8, 4, 4, 0, 60, t, l, <<"English">>) :
                        t \in Topics, l \in Locations}
    /\ arg_languages = <<>>
    /\ out_provider = ""
    /\ reports = <<>>
    /\ phases = <<>>
    /\ GwIdle
    /\ UiIdle

ResearchTopic ==
    /\ fn = "none"
    /\ fn' = "_research_topic"
    /\ out_text' = _research_topic(arg_form.topic, arg_form.location)
    /\ UNCHANGED <<arg_text, arg_duration, arg_form, arg_languages,
                   out_provider, reports, phases>>
    /\ UNCHANGED gwvars
    /\ UNCHANGED uivars

ResearchNext == ResearchTopic
SpecResearch == ResearchInit /\ [][ResearchNext]_vars

----------------------------------------------------------------------------
(* generate_enhanced_prompt on short topics (specification SpecTemplates) *)

ClassWords == {"Market", "SALES", "Brand", "shopping", "Health", "Healthtech",
               "Retail", "App", "Coffee"}
ClassTopics == UNION {[1..n -> ClassWords] : n \in 1..MaxTopicWords}

TemplatesInit ==
    /\ fn = "none"
    /\ arg_text \in {EmptyText, EditedPrompt.text}
    /\ arg_duration = 0
    /\ out_text = <<>>
    /\ arg_form \in {FormData(8, 4, 4, 0, 60, t, <<"Mumbai,", "India">>,
                               <<"Hindi", "English">>) : t \in ClassTopics}
    /\ arg_languages = <<>>
    /\ out_provider = ""
    /\ reports = <<>>
    /\ phases = <<>>
    /\ GwIdle
    /\ UiIdle

GenerateEnhancedPrompt ==
    /\ fn = "none"
    /\ fn' = "generate_enhanced_prompt"
    /\ out_text' = generate_enhanced_prompt(arg_form, arg_text)
    /\ UNCHANGED <<arg_text, arg_duration, arg_form, arg_languages,
                   out_provider, reports, phases>>
    /\ UNCHANGED gwvars
    /\ UNCHANGED uivars

TemplatesNext == GenerateEnhancedPrompt
SpecTemplates == TemplatesInit /\ [][TemplatesNext]_vars

----------------------------------------------------------------------------
(* _get_language_patterns on the selections of the language multiselect    *)
(* (specification SpecPatterns)                                             *)

PatternLocations ==
    { <<"Mumbai,", "India">>, <<"London,", "UK">>, <<"USA">>, <<"Toronto,", "Canada">>,
      <<"Canada", "USA">>, <<"Paris,", "France">> }

PatternsInit ==
    /\ fn = "none"
    /\ arg_text = <<>>
    /\ arg_duration = 0
    /\ out_text = <<>>
    /\ arg_form \in {FormData(8, 4, 4, 0, 60, <<"Coffee">>, l, q) :
                        l \in PatternLocations, q \in Selections}
    /\ arg_languages = <<>>
    /\ out_provider = ""
    /\ reports = <<>>
    /\ phases = <<>>
    /\ GwIdle
    /\ UiIdle

GetLanguagePatterns ==
    /\ fn = "none"
    /\ fn' = "_get_language_patterns"
    /\ out_text' = _get_language_patterns(arg_form.languages, arg_form.location)
    /\ UNCHANGED <<arg_text, arg_duration, arg_form, arg_languages,
                   out_provider, reports, phases>>
    /\ UNCHANGED gwvars
    /\ UNCHANGED uivars

PatternsNext == GetLanguagePatterns
SpecPatterns == PatternsInit /\ [][PatternsNext]_vars

----------------------------------------------------------------------------
(* The word breakdown for every duration the form accepts (specification     *)
(* SpecPhases)                                                              *)

\* st.number_input("Duration (minutes)", min_value=15, max_value=180, ...)
MinDuration == 15
MaxDuration == 180

PhasesInit ==
    /\ fn = "none"
    /\ arg_text = <<>>
    /\ arg_duration \in MinDuration..MaxDuration
    /\ out_text = <<>>
    /\ FnRestIdle
    /\ GwIdle
    /\ UiIdle

WordBreakdown ==
    /\ fn = "none"
    /\ fn' = "word_breakdown"
    /\ phases' = word_breakdown(calculate_word_count(arg_duration))
    /\ UNCHANGED <<arg_text, arg_duration, out_text, arg_form, arg_languages,
                   out_provider, reports>>
    /\ UNCHANGED gwvars
    /\ UNCHANGED uivars

PhasesNext == WordBreakdown
SpecPhases == PhasesInit /\ [][PhasesNext]_vars

----------------------------------------------------------------------------
(* The claims about the gateway and the pipeline (specification Spec) *)

\* _simulate_transcript ran in the last operation
FellBack == \E i \in 1..Len(messages) : messages[i] = FallbackWarning
\* the client's construction raised in the last operation
InitFailed == \E i \in 1..Len(messages) : messages[i].what = "Error initializing"
\* everything a returned value carries beside its text
Tag(value) == [provider |-> value.provider, type |-> value.type, what |-> value.what]
\* a response that is there but has no usable text
MalformedOrEmpty(resp) ==
    \/ resp.kind \in {"no_field", "empty_list", "no_text"}
    \/ resp.kind = "text" /\ resp.text = EmptyText

\* C1: with an initialized mistral handle, when the provider's response is
\* malformed or empty (no text field, empty choices, or an empty text),
\* generate_transcript returns a non-empty text.
C1_MalformedMistralGivesText ==
    (/\ op.name = "generate_transcript"
     /\ op.provider = "mistral"
     /\ "mistral" \in DOMAIN providers
     /\ MalformedOrEmpty(response))
        => (ret.type = "str" /\ ret.text # EmptyText)

\* C2: when generate_transcript returns the local stub, the value it hands
\* back differs from a genuine provider result in something beside its text
\* (a response-source flag).
C2_FallbackIsFlagged ==
    (op.name = "generate_transcript" /\ FellBack)
        => Tag(ret) # Tag(PyStr(SampleText))

C4_StubOnlyForMistral ==
    (op.name = "generate_transcript" /\ response.kind = "raise")
        => (/\ (ret = PyStr(StubText(op.form_data)))
                   <=> (providers[op.provider].type = "mistral")
            /\ FellBack <=> (providers[op.provider].type = "mistral")
            /\ providers[op.provider].type # "mistral" => ret.type # "str")

C4_Witness ==
    /\ op.name = "generate_transcript"
    /\ response.kind = "raise"
    /\ providers[op.provider].type = "mistral"
    /\ ret = PyStr(StubText(op.form_data))

\* C5: when initialize_provider fails in generate_full_transcript, the run
\* ends with an exception that names the provider, the client was constructed
\* once (no retry) and no completion request was sent.
C5_InitFailureIsTerminal ==
    (op.name = "generate_full_transcript" /\ InitFailed)
        => (/\ ret = Raised("Failed to initialize", op.provider)
            /\ inits = <<[provider |-> op.provider, api_key |-> op.api_key]>>
            /\ requests = <<>>)

C5_Witness ==
    /\ op.name = "generate_full_transcript"
    /\ InitFailed
    /\ op.provider \in DOMAIN providers
    /\ ret.type = "Exception"

\* C6: a run of generate_full_transcript sends at most one completion
\* request, and only to the configured provider, whatever the outcome.
C6_AtMostOneRequest ==
    op.name = "generate_full_transcript"
        => (/\ Len(requests) <= 1
            /\ \A i \in 1..Len(requests) : requests[i].provider = op.provider)

C6_Witness ==
    /\ op.name = "generate_full_transcript"
    /\ response.kind = "raise"
    /\ ret = Raised("Failed to generate transcript", "")
    /\ Len(requests) = 1

\* C9: every request generate_transcript sends carries temperature 0.7 and
\* a max-output parameter of calculate_word_count(duration) * 1.5.
C9_RequestParameters ==
    op.name = "generate_transcript"
        => \A i \in 1..Len(requests) :
              /\ requests[i].temperature_x10 = {TEMPERATURE_x10}
              /\ requests[i].max_tokens_x2 = {3 * calculate_word_count(op.form_data.duration)}

\* the text has a line made of these words
HasLine(text, words) == \E i \in 1..Len(text) : text[i].words = words
\* the text has a word in which "Mumbai" is written
NamesMumbai(text) ==
    \E i \in 1..Len(text) : \E j \in 1..Len(text[i].words) :
        text[i].words[j].w \in {"Mumbai", "Mumbai,"}
\* the pipeline ran on the Mumbai study with the prompt composed from it
MumbaiRun ==
    /\ op.name = "generate_full_transcript"
    /\ op.form_data = EvMumbai
    /\ requests # <<>>
    /\ requests[1].prompt.base = ComposedPrompt(EvMumbai)

\* C18: for the Mumbai electric-vehicle study (8 participants, 4/4/0, 60
\* minutes, Hindi and English) the recommended provider is google, the prompt
\* sent names Mumbai and carries the electric-vehicle research of India, and
\* the transcript returned has the header lines "Duration: 60 minutes" and
\* "Location: Mumbai, India"
C18_MumbaiScenario ==
    MumbaiRun =>
        /\ get_recommended_provider(op.form_data.languages) = "google"
        /\ NamesMumbai(requests[1].prompt.base.text)
        /\ requests[1].prompt.research = research_templates("electric vehicle", "india")
        /\ ret.type = "str" =>
              /\ HasLine(ret.text, Plain(<<"-", "Duration:">>) \o <<Num(60)>>
                                    \o Plain(<<"minutes">>))
              /\ HasLine(ret.text, Plain(<<"-", "Location:", "Mumbai,", "India">>))
C18_Witness ==
    /\ MumbaiRun
    /\ op.provider = "google"
    /\ response = Resp("text", SampleText, "")
    /\ ret.type = "str"
    /\ Len(requests) = 1

\* C26: whenever initialize_provider(provider_name, api_key, model) returns
\* True, the handle table has a handle for provider_name with the given
\* model and with provider_name as its type, whatever the provider name,
\* known or not
C26_TrueMeansRegistered ==
    (op.name = "initialize_provider" /\ ret = PyBool(TRUE)) =>
        /\ op.provider \in DOMAIN providers
        /\ providers[op.provider].model = op.model
        /\ providers[op.provider].type = op.provider

\* generate_transcript ran for a provider that has no handle
CalledWithoutHandle ==
    op.name = "generate_transcript" /\ op.provider \notin DOMAIN providers
\* a handle for the name is in the table after the step and was not before
Registers(name) == name \in DOMAIN providers' /\ name \notin DOMAIN providers

\* C27: generate_transcript sends a request to a provider only if an earlier
\* initialize_provider for that provider name succeeded (a handle enters the
\* table only by a successful initialization of its name, and a request goes
\* only to a name in the table); for a name without a handle it returns
\* None, sends nothing, gives no simulated transcript, and it never changes
\* the table
C27_RequestOnlyAfterInitialize ==
    /\ []((op.name = "generate_transcript" /\ requests # <<>>)
             => (/\ op.provider \in DOMAIN providers
                 /\ \A i \in 1..Len(requests) :
                       requests[i].provider = providers[op.provider].type))
    /\ [](CalledWithoutHandle
             => (/\ ret = PyNone
                 /\ requests = <<>>
                 /\ response = NoResponse
                 /\ ~FellBack))
    /\ [][/\ \A name \in ProviderNames :
               Registers(name)
                   => (/\ op'.provider = name
                       /\ op'.name \in {"initialize_provider", "generate_full_transcript"}
                       /\ inits' = <<[provider |-> name, api_key |-> op'.api_key]>>
                       /\ (op'.name = "initialize_provider" => ret' = PyBool(TRUE)))
           /\ (op'.name = "generate_transcript" => providers' = providers)]_vars
C27_Witness ==
    /\ CalledWithoutHandle
    /\ DOMAIN providers = {"mistral"}
    /\ op.provider = "other"
    /\ ret = PyNone

----------------------------------------------------------------------------
(* The claims about the form layer (specification SpecApp) *)

\* C7 as stated: a configuration whose gender counts do not add up to the
\* total, handed to generate_full_transcript, is rejected with a
\* ConfigurationError before any client is constructed or request sent.
C7_PipelineRejectsMismatch ==
    (op.name = "generate_full_transcript" /\ ~GenderCountsMatch(op.form_data))
        => (/\ ret.type = "Exception"
            /\ ret.what = "ConfigurationError"
            /\ inits = <<>>
            /\ requests = <<>>)

\* C7 as amended: the form rejects such a configuration: while the session
\* holds it, the session is on the form step and the form shows the
\* gender-count error, and a press of "Generate Research Prompt" does not
\* leave the form; so every later step works on matching counts.
C7_FormRejectsMismatch ==
    /\ (sess_form # NoForm /\ ~GenderCountsMatch(sess_form))
           => (step = "form" /\ GenderTotalError \in shown)
    /\ GenderSubmitError \in shown => step = "form"
    /\ step # "form" => GenderCountsMatch(sess_form)

C7_Witness ==
    /\ GenderSubmitError \in shown
    /\ ~GenderCountsMatch(sess_form)
    /\ api_config # EmptyConfig

\* C8 as stated: no client is constructed with a credential that fails the
\* provider's format check, the error that blocks an invalid credential
\* names the provider, and the stored api_config holds only a pair that
\* passed the check.
C8_InvalidKeyBlockedByNamedError ==
    /\ \A i \in 1..Len(inits) : validate_api_key(inits[i].provider, inits[i].api_key)
    /\ \A e \in shown : e.what = InvalidKeyError.what => e.provider \in KnownProviders
    /\ api_config # EmptyConfig
           => validate_api_key(api_config.provider, api_config.api_key)

\* C8 as amended: the stored api_config holds only a provider/key pair that
\* passed the format check; a credential that fails it empties api_config
\* and keeps the session on the form; and no later step is entered without
\* a stored pair.
C8_StoredConfigPassedCheck ==
    /\ api_config # EmptyConfig
           => validate_api_key(api_config.provider, api_config.api_key)
    /\ InvalidKeyError \in shown => (api_config = EmptyConfig /\ step = "form")
    /\ step # "form" => api_config # EmptyConfig

C8_Witness ==
    /\ InvalidKeyError \in shown
    /\ NotConfiguredError \in shown
    /\ sess_form = EvMumbai

\* C28: after 'Generate Transcript' is pressed on the prompt page the runs
\* of main() render without error and the session comes to step 'result'
\* with a transcript that is not empty; main() finds every value of the step
\* in its sidebar step list
C28_GeneratingReachesResult ==
    /\ ~crashed
    /\ Title(step) \in SidebarSteps
    /\ step = "result" => generated_transcript # EmptyText

\* C29: on the prompt page entered from the form, the prompt shown is the
\* one composed from the form data submitted in that transition; after 'Back
\* to Form', a change of the configuration and a new 'Generate Research
\* Prompt', generated_prompt is composed from the new configuration
C29_PromptFollowsForm ==
    (step = "prompt" /\ generated_prompt.kind = "composed")
        => generated_prompt = ComposedPrompt(sess_form)

----------------------------------------------------------------------------
(* The claims about timestamp repair (specification SpecRepair) *)

\* the speaker markers the specification names: MODERATOR, P1..P8, PARTICIPANT
SpeakerMarkers == TimestampMarkers \cup {"PARTICIPANT"}
\* a speaker line: it contains ':' and a speaker marker
SpeakerTurn(line) == HasColon(line) /\ LineMarkers(line) \cap SpeakerMarkers # {}
\* the line begins, after its indentation, with a [mm:ss] stamp
BeginsWithStamp(line) == Len(line.words) > 0 /\ line.words[1].w = "[mm:ss]"
\* every speaker line of the text begins with a stamp
FullyStamped(text) ==
    \A i \in 1..Len(text) : SpeakerTurn(text[i]) => BeginsWithStamp(text[i])

\* the value of a line's leading [mm:ss], in seconds; -1 when it has none
LeadingStamp(line) ==
    IF Len(line.words) > 0 /\ line.words[1].w = "[mm:ss]"
    THEN line.words[1].m * 60 + line.words[1].s
    ELSE -1

\* C10: the leading [mm:ss] values of the lines of the output of
\* _add_timestamps, pre-existing and synthesized alike, read top to bottom,
\* never decrease.
C10_StampsNonDecreasing ==
    fn = "_add_timestamps" =>
        \A i, j \in 1..Len(out_text) :
            (i < j /\ LeadingStamp(out_text[i]) >= 0 /\ LeadingStamp(out_text[j]) >= 0)
                => LeadingStamp(out_text[i]) <= LeadingStamp(out_text[j])

\* C11: timestamp repair is idempotent: applied to a transcript in which
\* every speaker line already begins with a [mm:ss] stamp, _add_timestamps
\* returns the transcript unchanged, for any duration.
C11_RepairIdempotent ==
    (fn = "_add_timestamps" /\ FullyStamped(arg_text)) => out_text = arg_text

C11_Witness ==
    /\ fn = "_add_timestamps"
    /\ FullyStamped(arg_text)
    /\ Len(arg_text) = 3
    /\ \A i \in 1..3 : SpeakerTurn(arg_text[i])
    /\ arg_text[2].indent
    /\ out_text = arg_text

\* the lines of the input that are speaker lines without a leading stamp
Unstamped(text) ==
    {i \in 1..Len(text) : SpeakerTurn(text[i]) /\ ~BeginsWithStamp(text[i])}

\* C20: after timestamp repair every speaker line (':' and MODERATOR, P1..P8
\* or PARTICIPANT) that had no leading stamp in the input begins with a
\* synthesized [mm:ss] stamp, and the first of these stamps is [00:00]
C20_EverySpeakerLineStamped ==
    fn = "_add_timestamps" =>
        /\ Len(out_text) = Len(arg_text)
        /\ \A i \in Unstamped(arg_text) : BeginsWithStamp(out_text[i])
        /\ \A i \in Unstamped(arg_text) :
              (\A j \in Unstamped(arg_text) : i <= j)
                  => LeadingStamp(out_text[i]) = 0

\* the line starts with '[' and contains ']' and a digit
StartsStamped(line) == StartsWithBracket(line) /\ HasCloseBracket(line) /\ HasDigit(line)
\* out is the line with a [mm:ss] stamp put in front of it and nothing else changed
OnlyPrefixed(line, out) ==
    /\ Len(out.words) = Len(line.words) + 1
    /\ out.words[1].w = "[mm:ss]"
    /\ SubSeq(out.words, 2, Len(out.words)) = line.words

\* C21: timestamp repair keeps the number and the order of the lines: a line
\* that starts with '[' and contains ']' and a digit, and a line that is not
\* a speaker line, is at the same position unchanged, and a line that is
\* changed differs from the input line only by the [mm:ss] stamp in front
C21_RepairKeepsLines ==
    fn = "_add_timestamps" =>
        /\ Len(out_text) = Len(arg_text)
        /\ \A i \in 1..Len(arg_text) :
              /\ (StartsStamped(arg_text[i]) \/ ~SpeakerTurn(arg_text[i]))
                    => out_text[i] = arg_text[i]
              /\ out_text[i] # arg_text[i] => OnlyPrefixed(arg_text[i], out_text[i])
C21_Witness ==
    /\ fn = "_add_timestamps"
    /\ Len(arg_text) = 3
    /\ StartsStamped(arg_text[1]) /\ out_text[1] = arg_text[1]
    /\ ~SpeakerTurn(arg_text[2]) /\ arg_text[2] # EmptyLine /\ out_text[2] = arg_text[2]
    /\ out_text[3] # arg_text[3]

----------------------------------------------------------------------------
(* The claims about word-count reconciliation (specification SpecAdjust) *)

\* the lines appended to the body
Appended == SubSeq(out_text, Len(arg_text) + 1, Len(out_text))
\* a line is the annotation
IsNote(line) == Len(line.words) > 0 /\ line.words[1].w = "[Note:"

\* C12: the output of _adjust_word_count has the input body as an exact
\* prefix, and what follows the body is nothing or one annotation (an empty
\* line and the note).
C12_BodyIsPrefix ==
    fn = "_adjust_word_count"
        => (/\ Len(out_text) >= Len(arg_text)
            /\ SubSeq(out_text, 1, Len(arg_text)) = arg_text
            /\ \/ Appended = <<>>
               \/ /\ Len(Appended) = 2
                  /\ Appended[1] = EmptyLine
                  /\ IsNote(Appended[2]))

C12_Witness ==
    /\ fn = "_adjust_word_count"
    /\ Len(arg_text) = 3
    /\ WordCount(arg_text) * 10 > 12 * calculate_word_count(arg_duration)
    /\ Len(out_text) = 5
    /\ SubSeq(out_text, 1, 3) = arg_text

\* the number carried by the word of spelling str on the line, as a set
NumbersAt(line, str) ==
    {line.words[i].m : i \in {j \in 1..Len(line.words) : line.words[j].w = str}}

\* C13: _adjust_word_count appends an annotation if and only if
\* actual/expected is strictly below 0.8 or strictly above 1.2; at exactly
\* 0.8, exactly 1.2 and in between the body is returned unchanged; the
\* annotation states the actual and the expected count.
C13_AnnotatedIffOutside ==
    fn = "_adjust_word_count" =>
        LET actual == WordCount(arg_text)
            expected == calculate_word_count(arg_duration)
            outside == 10 * actual < 8 * expected \/ 10 * actual > 12 * expected
        IN /\ outside <=> out_text # arg_text
           /\ ~outside => out_text = arg_text
           /\ outside =>
                 /\ NumbersAt(out_text[Len(out_text)], "~<n>,") = {actual}
                 /\ NumbersAt(out_text[Len(out_text)], "~<n>]") = {expected}

\* the ratio is exactly 0.8 and the body comes back unchanged
C13_Witness ==
    /\ fn = "_adjust_word_count"
    /\ 10 * WordCount(arg_text) = 8 * calculate_word_count(arg_duration)
    /\ out_text = arg_text

----------------------------------------------------------------------------
(* The claims about the provider recommendation (specification SpecRecommend) *)

\* the set of the selected languages
Selected == {arg_languages[i] : i \in 1..Len(arg_languages)}

\* C14: for every selection that contains "Hindi" or "Hinglish",
\* get_recommended_provider returns google, whatever else is selected.
C14_IndicGivesGoogle ==
    (fn = "get_recommended_provider" /\ Selected \cap {"Hindi", "Hinglish"} # {})
        => out_provider = "google"

\* Hinglish beside French and English
C14_Witness ==
    /\ fn = "get_recommended_provider"
    /\ Selected = {"French", "Hinglish", "English"}
    /\ out_provider = "google"

\* C15: for a selection with neither Hindi nor Hinglish,
\* get_recommended_provider returns mistral if and only if the selection is
\* exactly {"French"}, and openai for every other such selection.
C15_FrenchAloneGivesMistral ==
    (fn = "get_recommended_provider" /\ Selected \cap {"Hindi", "Hinglish"} = {})
        => (/\ out_provider = "mistral" <=> Selected = {"French"}
            /\ Selected # {"French"} => out_provider = "openai")

\* French beside English falls through to the default
C15_Witness ==
    /\ fn = "get_recommended_provider"
    /\ Selected = {"French", "English"}
    /\ out_provider = "openai"

\* C30: for every non-empty selection of the eight languages, the provider
\* get_recommended_provider returns has every selected language among its
\* languages in AI_PROVIDERS: its coverage in the comparison table is n out
\* of n
C30_RecommendedCoversSelection ==
    (fn = "get_recommended_provider" /\ arg_languages # <<>>) =>
        /\ Range(arg_languages) \subseteq ProviderLanguages(out_provider)
        /\ lang_support(out_provider, arg_languages) = Len(arg_languages)

----------------------------------------------------------------------------
(* The claims about the quality report (specification SpecQuality) *)

\* the probes a report passed
Passed(report) == {k \in DOMAIN report.checks : report.checks[k]}

ProbeOf(text) == {i \in 1..Len(ProbeOrder) : Recommendation(ProbeOrder[i]) = text}

\* C17: in every report each failing probe contributes exactly its one
\* fixed recommendation and each passing probe none: the number of
\* recommendations is 8 minus passed_checks, and they stand in the order
\* of the probes.
C17_OneRecommendationPerFailure ==
    fn = "validate_transcript_quality" =>
        \A n \in 1..Len(reports) :
            LET recs == reports[n].recommendations
                checks == reports[n].checks
            IN /\ Len(recs) = 8 - reports[n].passed_checks
               /\ \A k \in DOMAIN checks :
                     Cardinality({i \in 1..Len(recs) : recs[i] = Recommendation(k)})
                         = IF checks[k] THEN 0 ELSE 1
               /\ \A i, j \in 1..Len(recs) :
                     i < j => \A a \in ProbeOf(recs[i]), b \in ProbeOf(recs[j]) : a < b

\* a report with three failing probes
C17_Witness ==
    /\ fn = "validate_transcript_quality"
    /\ Len(reports) = 1
    /\ reports[1].passed_checks = 5
    /\ Len(reports[1].recommendations) = 3

----------------------------------------------------------------------------
(* The claims about the word breakdown (specification SpecPhases) *)

PhaseSum == phases[1] + phases[2] + phases[3] + phases[4]

\* C19: for every duration from 15 to 180 minutes the word targets of the
\* four phases (15%, 10%, 65% and 10% of the expected words) add up to a
\* number within 4 words of the expected words
C19_PhasesSumToExpected ==
    fn = "word_breakdown" =>
        /\ Len(phases) = 4
        /\ PhaseSum - calculate_word_count(arg_duration) \in (0 - 4)..4
\* an odd duration, where two of the four targets are cut down to a whole number
C19_Witness ==
    /\ fn = "word_breakdown"
    /\ arg_duration = 15
    /\ phases = <<337, 225, 1462, 225>>

----------------------------------------------------------------------------
(* The claims about the post-processor (specification SpecPost) *)

\* the body after formatting normalization and timestamp repair
RepairedBody ==
    _add_timestamps(_clean_transcript_formatting(arg_text), arg_form.duration)
\* the lines of the result after the header and the blank line
BodyOfResult ==
    SubSeq(out_text, Len(_generate_transcript_header(arg_form)) + 2, Len(out_text))

\* C22: the result of the post-processor is the header, a blank line, and the
\* raw text normalized, then repaired, then reconciled, each once and in this
\* order; the word count of the reconciliation is the count of the repaired
\* body, without the header
C22_StagesInOrder ==
    fn = "_post_process_transcript" =>
        /\ out_text = _generate_transcript_header(arg_form) \o <<EmptyLine>>
                          \o _adjust_word_count(RepairedBody, arg_form)
        /\ \A i \in 1..Len(BodyOfResult) :
              IsNote(BodyOfResult[i])
                  => NumbersAt(BodyOfResult[i], "~<n>,") = {WordCount(RepairedBody)}
C22_Witness ==
    /\ fn = "_post_process_transcript"
    /\ arg_form = EvMumbai
    /\ Len(arg_text) = 3
    /\ arg_text[2].indent
    /\ RepairedBody # arg_text
    /\ RepairedBody # _clean_transcript_formatting(arg_text)
    /\ Len(BodyOfResult) = Len(RepairedBody) + 2
    /\ IsNote(BodyOfResult[Len(BodyOfResult)])

----------------------------------------------------------------------------
(* The claims about the research lookup (specification SpecResearch) *)

\* the keys of the research table the topic contains
TopicKeys(topic) ==
    {research_keys[k] : k \in {i \in 1..Len(research_keys) : TopicHas(topic, research_keys[i])}}
\* the location keys of a topic's entry
LocationKeys(key) == Range(research_locations(key))
\* an entry (topic keyword, location keyword) of the table matches
EntryMatches(topic, location) ==
    \E key \in TopicKeys(topic) : \E loc \in LocationKeys(key) : LocationHas(location, loc)

\* C23: _research_topic returns the generic "Research topic X in context of
\* Y" sentence whenever no (topic keyword, location keyword) entry of the
\* table matches, also when the topic keyword matches and none of its
\* location keys is in the location
C23_GenericWhenNoEntry ==
    (fn = "_research_topic" /\ ~EntryMatches(arg_form.topic, arg_form.location))
        => out_text = NoTemplate(arg_form.topic, arg_form.location)

\* C23 as the code has it: _research_topic returns the generic sentence
\* exactly when the topic contains no topic keyword of the table; when a
\* topic keyword matches and none of its location keys is in the location,
\* it returns the topic's 'global' entry if there is one and the line "No
\* specific research available" otherwise
C23_GenericIffNoTopicKey ==
    fn = "_research_topic" =>
        /\ (TopicKeys(arg_form.topic) = {})
              <=> (out_text = NoTemplate(arg_form.topic, arg_form.location))
        /\ (TopicKeys(arg_form.topic) # {}
              /\ ~EntryMatches(arg_form.topic, arg_form.location))
              => \E key \in TopicKeys(arg_form.topic) :
                    out_text = IF "global" \in LocationKeys(key)
                               THEN research_templates(key, "global")
                               ELSE <<Line(Plain(<<"No", "specific", "research",
                                                   "available">>))>>
C23_Witness ==
    /\ fn = "_research_topic"
    /\ arg_form.topic = <<"Electric", "Vehicle">>
    /\ arg_form.location = <<"Toronto,">>
    /\ out_text = <<Line(Plain(<<"No", "specific", "research", "available">>))>>

----------------------------------------------------------------------------
(* The claims about the prompt templates (specification SpecTemplates) *)

\* the kinds in the order in which the keyword sets are asked
KindOrder == <<"business", "consumer", "healthcare", "technology">>
KindKeywords(kind) ==
    CASE kind = "business" -> business_keywords
      [] kind = "consumer" -> consumer_keywords
      [] kind = "healthcare" -> healthcare_keywords
      [] kind = "technology" -> technology_keywords
KindHeading(kind) ==
    CASE kind = "business" -> "BUSINESS"
      [] kind = "consumer" -> "CONSUMER"
      [] kind = "healthcare" -> "HEALTHCARE"
      [] kind = "technology" -> "TECHNOLOGY"
\* the kinds whose SPECIFICS block the prompt has
KindsOfPrompt(text) ==
    {KindOrder[k] : k \in {i \in 1..4 :
        HasLine(text, Plain(<<KindHeading(KindOrder[i]), "FOCUS", "GROUP", "SPECIFICS:">>))}}
\* the positions in KindOrder of the sets with a keyword in the topic, read
\* without regard to case
MatchedAt(topic) ==
    {k \in 1..4 : \E i \in 1..Len(topic) :
        ClassKeywordsIn(Lower(topic[i])) \cap KindKeywords(KindOrder[k]) # {}}

\* C24: the template generate_enhanced_prompt uses is that of the first
\* keyword set, in the order business, consumer, healthcare, technology, of
\* which a keyword is a substring of the topic without regard to case; with
\* no such set it is the standard template
C24_FirstMatchingKindWins ==
    fn = "generate_enhanced_prompt" =>
        KindsOfPrompt(out_text) =
            IF MatchedAt(arg_form.topic) = {} THEN {}
            ELSE {KindOrder[Min(MatchedAt(arg_form.topic))]}
C24_Witness ==
    /\ fn = "generate_enhanced_prompt"
    /\ arg_form.topic = <<"App", "Brand">>
    /\ MatchedAt(arg_form.topic) = {2, 4}
    /\ KindsOfPrompt(out_text) = {"consumer"}

----------------------------------------------------------------------------
(* The claims about the language patterns (specification SpecPatterns) *)

\* the lines of the text that begin an entry: "<language>:" comes first
EntryHeads(text) ==
    {i \in 1..Len(text) :
        /\ Len(text[i].words) > 0
        /\ \E lang \in AvailableLanguages : text[i].words[1] = W(lang \o ":")}
\* the k-th smallest number of a set
Nth(S, k) == CHOOSE x \in S : Cardinality({y \in S : y < x}) = k - 1
\* the lines of the k-th entry
EntryAt(text, k) ==
    SubSeq(text, Nth(EntryHeads(text), k),
           IF k < Cardinality(EntryHeads(text))
           THEN Nth(EntryHeads(text), k + 1) - 1 ELSE Len(text))
\* the region keys found in the location, as positions in india, uk, usa, canada
RegionsFound(location) ==
    {r \in 1..4 : LocationHas(location, <<"india", "uk", "usa", "canada">>[r])}
\* the entry the claim describes for a language
EntryFor(lang, location) ==
    IF lang = "English"
    THEN IF RegionsFound(location) # {}
         THEN <<Line(<<W("English:")>>)>>
                  \o Tail(english_patterns(
                         <<"india", "uk", "usa", "canada">>[Min(RegionsFound(location))]))
         ELSE <<Line(Plain(<<"English:", "Standard", "English", "patterns">>))>>
    ELSE IF lang \in {"Hindi", "Hinglish", "French"}
    THEN <<Line(<<W(lang \o ":")>>)>> \o Tail(patterns(LangLower(lang)))
    ELSE <<Line(Plain(<<lang \o ":", "Use", "natural", lang, "speech", "patterns",
                        "with", "local", "dialect", "variations">>))>>

\* C25: _get_language_patterns gives one entry per requested language, in
\* the order of the list; a language that is not in the pattern table gets
\* the generic natural-speech instruction, and English gets the entry of the
\* first of india, uk, usa, canada found in the location, else the
\* "Standard English patterns" line
C25_OneEntryPerLanguage ==
    fn = "_get_language_patterns" =>
        /\ Cardinality(EntryHeads(out_text)) = Len(arg_form.languages)
        /\ \A k \in 1..Len(arg_form.languages) :
              EntryAt(out_text, k) = EntryFor(arg_form.languages[k], arg_form.location)
C25_Witness ==
    /\ fn = "_get_language_patterns"
    /\ arg_form.languages = <<"Spanish", "English", "Hindi">>
    /\ arg_form.location = <<"Canada", "USA">>
    /\ EntryAt(out_text, 2) = Labelled("English", english_patterns("usa"))
    /\ Len(EntryAt(out_text, 1)) = 1

====
